---- MODULE Spec2Model ----
(***************************************************************************)
(* Search client and result cache of the SphinxAI plugin:                  *)
(*   SphinxAI/sphinx_integration.py  (SphinxIntegrationPolish)             *)
(*   SphinxAI/utils/cache.py         (SphinxAICache, cached_search)        *)
(*   SphinxAI/core/constants.py      (POLISH_STOPWORDS, ...)               *)
(*                                                                         *)
(* Text is a sequence of characters; a character is a one-letter string,   *)
(* and a Polish letter is written by name ("a_og" is a-ogonek, "z_dot" is  *)
(* z-with-dot, "Z_DOT" its capital, and so on); "backtick" is the grave    *)
(* accent that quotes an identifier.                                       *)
(***************************************************************************)
EXTENDS Integers, Sequences, FiniteSets, TLC

VARIABLES
    raw,            \* the query handed to preprocess_polish_query
    sq,             \* what the call produced: [done, normalized, combined]
    cache_enabled,  \* SphinxAICache.cache_enabled
    is_connected,   \* SphinxAICache.is_connected
    redis_client,   \* SphinxAICache.redis_client is not None
    redis,          \* the server's keys and their values
    redis_mode,     \* the server: "up", "readonly" (writes refused), "down"
    environ,        \* os.environ, the variables _get_search_version reads
    last,           \* the last call: its arguments, result, backend requests
    ops,            \* calls and environment changes so far
    index_name,     \* SphinxIntegrationPolish.index_name
    connection,     \* SphinxIntegrationPolish.connection, by its state
    available_fields,   \* SphinxIntegrationPolish.available_fields
    content_in_index,   \* SphinxIntegrationPolish.content_in_index
    pymysql_available,  \* PYMYSQL_AVAILABLE
    sphinx_mode,    \* searchd: "up" or "down"
    index,          \* the engine's answers about the index
    call,           \* the client's last call: result, requests, statements
    threads,        \* where each thread stands inside _get_connection
    sockets,        \* the connections the client opened, in order
    pipe            \* commands of a pipeline the server has yet to run

cacheObject == <<cache_enabled, is_connected, redis_client>>
cacheVars == <<cache_enabled, is_connected, redis_client, redis, redis_mode,
               environ, last, ops>>
queryVars == <<raw, sq>>
clientVars == <<index_name, connection, available_fields, content_in_index,
                pymysql_available, sphinx_mode, index, call>>
vars == <<cacheVars, queryVars, clientVars, threads, sockets, pipe>>

----------------------------------------------------------------------------
(* Bounds of the model *)

\* longest query enumerated for the pure text functions
MaxQueryLen == 5

\* calls and environment changes in one run
MaxOps == 3

\* calls of the search client and engine changes in one run
MaxCalls == 2

----------------------------------------------------------------------------
(* core/constants.py *)

POLISH_STOPWORDS ==
    { <<"a">>, <<"a", "b", "y">>, <<"a", "l", "e">>, <<"a", "l", "b", "o">>, 
      <<"a", "m">>, <<"a", "n">>, <<"a", "n", "i">>, 
      <<"b", "a", "r", "d", "z", "o">>, <<"b", "e", "z">>, 
      <<"b", "e_og", "d", "z", "i", "e">>, <<"b", "y">>, <<"b", "y", "c_ac">>, 
      <<"c", "i">>, <<"c", "o">>, <<"c", "z", "y">>, <<"d", "l", "a">>, 
      <<"d", "o">>, <<"g", "d", "y">>, <<"g", "o">>, <<"i">>, <<"i", "c", "h">>, 
      <<"i", "l", "e">>, <<"i", "m">>, <<"j", "a">>, <<"j", "a", "k">>, 
      <<"j", "a", "k", "o">>, <<"j", "e">>, <<"j", "e", "g", "o">>, 
      <<"j", "e", "j">>, <<"j", "e", "d", "e", "n">>, 
      <<"j", "e", "d", "n", "e", "j">>, <<"j", "e", "d", "n", "a_og">>, 
      <<"j", "u", "z_dot">>, <<"k", "a", "z_dot", "d", "y">>, 
      <<"k", "t", "o_ac", "r", "a">>, <<"k", "t", "o_ac", "r", "e">>, 
      <<"k", "t", "o_ac", "r", "e", "j">>, <<"l", "u", "b">>, <<"m", "a">>, 
      <<"m", "a", "j", "a_og">>, <<"m", "o", "z_dot", "e">>, <<"m", "y">>, 
      <<"n", "a">>, <<"n", "a", "d">>, <<"n", "a", "s", "z">>, 
      <<"n", "a", "s", "z", "e">>, <<"n", "a", "s", "z", "e", "g", "o">>, 
      <<"n", "i", "e">>, <<"n", "i", "e", "g", "o">>, <<"n", "i", "e", "j">>, 
      <<"n", "i", "m">>, <<"n", "i", "m", "i">>, <<"o">>, <<"o", "d">>, 
      <<"o", "r", "a", "z">>, <<"p", "o">>, <<"p", "o", "d">>, 
      <<"p", "r", "z", "e", "z">>, <<"s", "i", "e_og">>, <<"s", "a_og">>, 
      <<"t", "a">>, <<"t", "a", "k">>, <<"t", "a", "m">>, <<"t", "e">>, 
      <<"t", "e", "j">>, <<"t", "e", "m">>, <<"t", "e", "m", "u">>, <<"t", "o">>, 
      <<"t", "u">>, <<"t", "y">>, <<"t", "y", "m">>, <<"w">>, <<"w", "e">>, 
      <<"w", "l_st", "a", "s_ac", "n", "i", "e">>, <<"z">>, <<"z", "a">>, 
      <<"z", "e">>, <<"z_dot", "e">>, <<"z_dot", "e", "b", "y">>, 
      <<"t", "y", "l", "k", "o">>, <<"t", "a", "k", "z_dot", "e">>, 
      <<"w", "i", "e_og", "c">>, <<"g", "d", "z", "i", "e">>, 
      <<"k", "i", "e", "d", "y">>, <<"c", "z", "y", "l", "i">>, 
      <<"d", "l", "a", "t", "e", "g", "o">>, <<"j", "e", "d", "n", "a", "k">>, 
      <<"m", "i", "e_og", "d", "z", "y">>, <<"p", "r", "z", "e", "d">>, 
      <<"p", "o", "d", "c", "z", "a", "s">>, <<"z", "a", "t", "e", "m">> }

POLISH_DIACRITICS_MAP ==
    [c \in {"a_og", "c_ac", "e_og", "l_st", "n_ac", "o_ac", "s_ac", "z_ac",
            "z_dot", "A_OG", "C_AC", "E_OG", "L_ST", "N_AC", "O_AC", "S_AC",
            "Z_AC", "Z_DOT"} |->
        CASE c = "a_og" -> "a" [] c = "c_ac" -> "c" [] c = "e_og" -> "e"
          [] c = "l_st" -> "l" [] c = "n_ac" -> "n" [] c = "o_ac" -> "o"
          [] c = "s_ac" -> "s" [] c = "z_ac" -> "z" [] c = "z_dot" -> "z"
          [] c = "A_OG" -> "A" [] c = "C_AC" -> "C" [] c = "E_OG" -> "E"
          [] c = "L_ST" -> "L" [] c = "N_AC" -> "N" [] c = "O_AC" -> "O"
          [] c = "S_AC" -> "S" [] c = "Z_AC" -> "Z" [] c = "Z_DOT" -> "Z"]

----------------------------------------------------------------------------
(* Python's str operations, on sequences of characters *)

\* the characters str.lower() changes
LowerMap ==
    ("A" :> "a") @@ ("B" :> "b") @@ ("C" :> "c") @@ ("D" :> "d")
    @@ ("E" :> "e") @@ ("F" :> "f") @@ ("G" :> "g") @@ ("H" :> "h")
    @@ ("I" :> "i") @@ ("J" :> "j") @@ ("K" :> "k") @@ ("L" :> "l")
    @@ ("M" :> "m") @@ ("N" :> "n") @@ ("O" :> "o") @@ ("P" :> "p")
    @@ ("Q" :> "q") @@ ("R" :> "r") @@ ("S" :> "s") @@ ("T" :> "t")
    @@ ("U" :> "u") @@ ("V" :> "v") @@ ("W" :> "w") @@ ("X" :> "x")
    @@ ("Y" :> "y") @@ ("Z" :> "z")
    @@ ("A_OG" :> "a_og") @@ ("C_AC" :> "c_ac") @@ ("E_OG" :> "e_og")
    @@ ("L_ST" :> "l_st") @@ ("N_AC" :> "n_ac") @@ ("O_AC" :> "o_ac")
    @@ ("S_AC" :> "s_ac") @@ ("Z_AC" :> "z_ac") @@ ("Z_DOT" :> "z_dot")

\* str.lower() on one character
LowerChar(c) == IF c \in DOMAIN LowerMap THEN LowerMap[c] ELSE c

\* str.lower()
Lower(s) == [i \in 1..Len(s) |-> LowerChar(s[i])]

\* the characters str.split() and str.strip() treat as whitespace
IsSpace(c) == c \in {" ", "\t", "\n"}

\* str.split() with no argument: the maximal runs of non-whitespace
Split(s) ==
    LET Words(starts, ends) ==
            LET EndOf(i) == CHOOSE j \in ends :
                              j >= i /\ \A k \in ends : k >= i => j <= k
                First(i) == CHOOSE j \in starts :
                              j >= i /\ \A k \in starts : k >= i => j <= k
                RECURSIVE From(_)
                From(i) == IF \A j \in starts : j < i THEN <<>>
                           ELSE <<SubSeq(s, First(i), EndOf(First(i)))>>
                                \o From(EndOf(First(i)) + 1)
            IN  From(1)
    IN  CHOOSE words \in
            {Words(starts, ends) :
                starts \in {{i \in 1..Len(s) :
                    ~IsSpace(s[i]) /\ (i = 1 \/ IsSpace(s[i - 1]))}},
                ends \in {{j \in 1..Len(s) :
                    ~IsSpace(s[j]) /\ (j = Len(s) \/ IsSpace(s[j + 1]))}}} :
            TRUE

\* sep.join(parts)
RECURSIVE Join(_, _)
Join(parts, sep) ==
    IF parts = <<>> THEN <<>>
    ELSE IF Len(parts) = 1 THEN parts[1]
    ELSE parts[1] \o sep \o Join(Tail(parts), sep)

\* str.strip() = "" : the text is empty or all whitespace
IsBlank(s) == \A i \in 1..Len(s) : IsSpace(s[i])

\* pat in s
Contains(s, pat) ==
    \/ pat = <<>>
    \/ \E i \in 1..(Len(s) - Len(pat) + 1) :
          s[i] = pat[1] /\ SubSeq(s, i, i + Len(pat) - 1) = pat

\* s.replace(old, new) for a one-character old; new is any text
ReplaceChar(s, old, new) ==
    LET RECURSIVE Go(_)
        Go(i) == IF i > Len(s) THEN <<>>
                 ELSE (IF s[i] = old THEN new ELSE <<s[i]>>) \o Go(i + 1)
    IN  IF \A i \in 1..Len(s) : s[i] # old THEN s ELSE Go(1)

\* the token Sphinx reads as logical OR between two spellings
OrOperator == <<" ", "|", " ">>

----------------------------------------------------------------------------
(* sphinx_integration.py: query normalisation *)

\* _normalize_polish_diacritics: every mapped letter replaced by its base
\* letter (the replacements never produce a mapped letter, so their order
\* does not matter)
NormalizePolishDiacritics(text) ==
    [i \in 1..Len(text) |->
        IF text[i] \in DOMAIN POLISH_DIACRITICS_MAP
        THEN POLISH_DIACRITICS_MAP[text[i]] ELSE text[i]]

\* filtered_words = [word for word in words if word not in POLISH_STOPWORDS]
FilterStopwords(words) ==
    SelectSeq(words, LAMBDA w : w \notin POLISH_STOPWORDS)

\* (mutation) the folded spelling is appended without comparing it
QueryVariations_Always(processed_query) ==
    <<processed_query, NormalizePolishDiacritics(processed_query)>>

\* query_variations: the processed query, and its folded spelling when the
\* two differ
QueryVariations(processed_query) ==
    LET normalized_query == NormalizePolishDiacritics(processed_query)
    IN  IF normalized_query # processed_query
        THEN <<processed_query, normalized_query>>
        ELSE <<processed_query>>

\* (mutation) the filtered words are joined although none is left
AllStopwordsResult_Joined(query) == <<>>

\* what the call returns when stopword removal leaves no word
AllStopwordsResult(query) == query

\* preprocess_polish_query; normalized is the term the variations are built
\* from, combined is the returned text
PreprocessPolishQuery(query) ==
    IF query = <<>> THEN [normalized |-> <<>>, combined |-> <<>>]
    ELSE LET filtered_words == FilterStopwords(Split(Lower(query)))
             processed_query == Join(filtered_words, <<" ">>)
         IN  IF filtered_words = <<>>
             THEN [normalized |-> AllStopwordsResult(query),
                   combined |-> AllStopwordsResult(query)]
             ELSE [normalized |-> processed_query,
                   combined |-> Join(QueryVariations(processed_query),
                                     OrOperator)]

----------------------------------------------------------------------------
(* Python values and their JSON text.  A value is a tagged tuple; JSON text *)
(* is the sequence of its tokens.                                           *)

PyNone == <<"None">>
PyInt(n) == <<"int", n>>
PyBool(b) == <<"bool", b>>
PyStr(s) == <<"str", s>>
PyList(items) == <<"list", items>>
PyDict(f) == <<"dict", f>>
\* hashlib's hexdigest of a text: a string that stands for exactly that text
PyDigest(text) == <<"digest", text>>
\* a value json.dumps has no encoding for (decimal.Decimal, bytes, datetime)
PyDecimal == <<"Decimal">>

\* every dictionary key the modelled code uses, in the order sort_keys puts
\* them
KeyOrder ==
    <<"attrs", "board", "board_id", "content", "content_in_index", "count",
      "embeddings", "filters", "id", "index", "limit", "max_results",
      "model_id", "model_path", "model_type", "needs_content_fetch",
      "post_id", "query", "results", "subject", "text", "timestamp",
      "topic_id", "version", "weight">>

Punct(c) == <<"punct", c>>

\* whether json.dumps(v) returns (it raises TypeError otherwise)
RECURSIVE Serializable(_)
Serializable(v) ==
    CASE v[1] = "Decimal" -> FALSE
      [] v[1] = "list" -> \A i \in 1..Len(v[2]) : Serializable(v[2][i])
      [] v[1] = "dict" -> \A k \in DOMAIN v[2] : Serializable(v[2][k])
      [] OTHER -> TRUE

\* json.dumps(v) for a serializable v
RECURSIVE JsonDumps(_)
JsonDumps(v) ==
    CASE v[1] = "None" -> << <<"null">> >>
      [] v[1] = "int" -> << <<"number", v[2]>> >>
      [] v[1] = "bool" -> << <<"boolean", v[2]>> >>
      [] v[1] = "str" -> << <<"string", v[2]>> >>
      [] v[1] = "digest" -> << <<"hex", v[2]>> >>
      [] v[1] = "list" ->
            <<Punct("[")>>
            \o Join([i \in 1..Len(v[2]) |-> JsonDumps(v[2][i])],
                    <<Punct(",")>>)
            \o <<Punct("]")>>
      [] v[1] = "dict" ->
            LET keys == SelectSeq(KeyOrder, LAMBDA k : k \in DOMAIN v[2])
            IN  <<Punct("{")>>
                \o Join([i \in 1..Len(keys) |->
                            <<<<"key", keys[i]>>, Punct(":")>>
                            \o JsonDumps(v[2][keys[i]])],
                        <<Punct(",")>>)
                \o <<Punct("}")>>

JSONDecodeError == <<"JSONDecodeError">>

ParseFail == [ok |-> FALSE, val |-> PyNone, next |-> 0]

IsPunct(text, i, c) ==
    i <= Len(text) /\ text[i][1] = "punct" /\ text[i][2] = c

\* the JSON value that starts at token i of the text
RECURSIVE ParseValue(_, _)
RECURSIVE ParseItems(_, _, _)
RECURSIVE ParseMembers(_, _, _)
ParseValue(text, i) ==
    IF i > Len(text) THEN ParseFail
    ELSE CASE text[i][1] = "null" ->
                [ok |-> TRUE, val |-> PyNone, next |-> i + 1]
           [] text[i][1] = "number" ->
                [ok |-> TRUE, val |-> PyInt(text[i][2]), next |-> i + 1]
           [] text[i][1] = "boolean" ->
                [ok |-> TRUE, val |-> PyBool(text[i][2]), next |-> i + 1]
           [] text[i][1] = "string" ->
                [ok |-> TRUE, val |-> PyStr(text[i][2]), next |-> i + 1]
           [] text[i][1] = "hex" ->
                [ok |-> TRUE, val |-> PyDigest(text[i][2]), next |-> i + 1]
           [] IsPunct(text, i, "[") ->
                IF IsPunct(text, i + 1, "]")
                THEN [ok |-> TRUE, val |-> PyList(<<>>), next |-> i + 2]
                ELSE ParseItems(text, i + 1, <<>>)
           [] IsPunct(text, i, "{") ->
                IF IsPunct(text, i + 1, "}")
                THEN [ok |-> TRUE, val |-> PyDict(<<>>), next |-> i + 2]
                ELSE ParseMembers(text, i + 1, <<>>)
           [] OTHER -> ParseFail
ParseItems(text, i, acc) ==
    LET item == ParseValue(text, i)
    IN  IF ~item.ok THEN ParseFail
        ELSE IF IsPunct(text, item.next, ",")
             THEN ParseItems(text, item.next + 1, Append(acc, item.val))
        ELSE IF IsPunct(text, item.next, "]")
             THEN [ok |-> TRUE, val |-> PyList(Append(acc, item.val)),
                   next |-> item.next + 1]
        ELSE ParseFail
ParseMembers(text, i, acc) ==
    IF ~(i + 1 <= Len(text) /\ text[i][1] = "key" /\ IsPunct(text, i + 1, ":"))
    THEN ParseFail
    ELSE LET item == ParseValue(text, i + 2)
             more == (text[i][2] :> item.val) @@ acc
         IN  IF ~item.ok THEN ParseFail
             ELSE IF IsPunct(text, item.next, ",")
                  THEN ParseMembers(text, item.next + 1, more)
             ELSE IF IsPunct(text, item.next, "}")
                  THEN [ok |-> TRUE, val |-> PyDict(more),
                        next |-> item.next + 1]
             ELSE ParseFail

\* json.loads(text): the value, or JSONDecodeError when the text is not one
\* complete JSON value
JsonLoads(text) ==
    LET parsed == ParseValue(text, 1)
    IN  IF parsed.ok /\ parsed.next = Len(text) + 1 THEN parsed.val
        ELSE JSONDecodeError

----------------------------------------------------------------------------
(* utils/cache.py: the Redis server as the cache client sees it *)

\* config['prefix'], config.get("ttl", 3600)
ConfigPrefix == "sphinxai:"
DefaultTtl == 3600

KEY_PREFIXES ==
    [cache_type \in {"search", "model", "config", "stats", "suggestions",
                     "embeddings"} |-> cache_type \o ":"]

\* A key is <<namespace, category tag, rest>>.  hashlib.sha256(...).hexdigest()
\* is taken to be collision-free: the rest of a hashed key is the hashed text.
GetCacheKey(cache_type, key) ==
    <<ConfigPrefix, KEY_PREFIXES[cache_type], key>>

\* f"{prefix}stats:{name}"
StatsKey(name) == <<ConfigPrefix, "stats:", name>>

\* A stored value is <<type, value, ttl, under>>: ttl 0 means no expiry, and
\* under remembers the settings in force when the value was written (history
\* only, no operation reads it).
NoSettings == <<"none">>

\* whether a command raises: no client object, server unreachable, or a
\* write refused by a server that only answers reads
Raises(write) ==
    \/ ~redis_client
    \/ redis_mode = "down"
    \/ write /\ redis_mode = "readonly"

\* requests that one attempted command puts on the wire
Attempt == IF redis_client THEN 1 ELSE 0

RedisSetex(r, key, ttl, text) ==
    (key :> <<"string", text, ttl, environ>>) @@ r

RedisIncr(r, key) ==
    IF key \in DOMAIN r
    THEN [r EXCEPT ![key] = <<"int", r[key][2] + 1, r[key][3], NoSettings>>]
    ELSE (key :> <<"int", 1, 0, NoSettings>>) @@ r

RedisDelete(r, keys) == [k \in DOMAIN r \ keys |-> r[k]]

\* (mutation) the tag of the pattern is not matched
RedisKeys_PrefixOnly(r, prefix, pattern) == {k \in DOMAIN r : k[1] = prefix}

\* KEYS full_pattern, for the patterns "<prefix>*" and "<prefix><tag>*"
RedisKeys(r, prefix, pattern) ==
    {k \in DOMAIN r :
        /\ k[1] = prefix
        /\ (pattern = "*" \/ pattern = k[2] \o "*")}

\* int(GET key or 0)
CounterValue(r, key) == IF key \in DOMAIN r THEN r[key][2] ELSE 0

Hits == CounterValue(redis, StatsKey("cache_hits"))
Misses == CounterValue(redis, StatsKey("cache_misses"))

----------------------------------------------------------------------------
(* utils/cache.py: SphinxAICache *)

\* what __init__ leaves in cache_enabled, is_connected, redis_client for a
\* configuration cfg = [section, enabled, type, host, lib] and a server that
\* answers PING or not
ConnectRedis(cfg, ping_ok) ==
    IF ~cfg.lib THEN [is_connected |-> FALSE, redis_client |-> FALSE]
    ELSE [is_connected |-> ping_ok, redis_client |-> TRUE]

Connect(cfg, ping_ok) ==
    CASE cfg.type = "smf" ->
            IF cfg.lib /\ cfg.host THEN ConnectRedis(cfg, ping_ok)
            ELSE [is_connected |-> FALSE, redis_client |-> FALSE]
      [] cfg.type = "redis" -> ConnectRedis(cfg, ping_ok)
      [] OTHER -> [is_connected |-> FALSE, redis_client |-> FALSE]

SphinxAICacheInit(cfg, ping_ok) ==
    LET enabled == cfg.section /\ cfg.enabled
    IN  IF enabled
        THEN [cache_enabled |-> TRUE] @@ Connect(cfg, ping_ok)
        ELSE [cache_enabled |-> FALSE, is_connected |-> FALSE,
              redis_client |-> FALSE]

CacheConfigs ==
    [section : BOOLEAN, enabled : BOOLEAN, type : {"smf", "redis", "file"},
     host : BOOLEAN, lib : BOOLEAN]

\* (mutation) the connected flag is not consulted
IsAvailable_EnabledOnly == cache_enabled /\ redis_client

IsAvailable == cache_enabled /\ is_connected /\ redis_client

\* os.environ.get(name, default)
Unset == <<"unset">>
EnvironGet(name, default) ==
    IF environ[name] = Unset THEN default ELSE environ[name]

\* (mutation) the result ceiling is left out of the version
GetSearchVersion_NoMaxResults ==
    PyDigest(JsonDumps(PyDict(
        ("model_path" :> EnvironGet("SPHINX_AI_MODEL_PATH", PyStr(<<>>)))
        @@ ("model_type" :> EnvironGet("SPHINX_AI_MODEL_TYPE", PyStr(<<>>))))))

\* _get_search_version (hashlib.md5 taken to be collision-free)
GetSearchVersion ==
    PyDigest(JsonDumps(PyDict(
        ("model_path" :> EnvironGet("SPHINX_AI_MODEL_PATH", PyStr(<<>>)))
        @@ ("model_type" :> EnvironGet("SPHINX_AI_MODEL_TYPE", PyStr(<<>>)))
        @@ ("max_results" :>
                EnvironGet("SPHINX_AI_MAX_RESULTS", PyStr(<<"5", "0">>))))))

\* cache_key of cache_search_results and get_cached_search_results
SearchCacheKey(query, filters) ==
    GetCacheKey("search", JsonDumps(PyDict(
        ("query" :> PyStr(query)) @@ ("filters" :> filters)
        @@ ("version" :> GetSearchVersion))))

\* time.time(), time.strftime("%Y-%m-%d"): the clock is not modelled
TimeTime == PyInt(0)
Today == "2025-01-01"

\* record_cache_hit / record_cache_miss: one INCR, its failure swallowed
RecordCounter(r, name) ==
    IF ~IsAvailable THEN [redis |-> r, calls |-> 0]
    ELSE IF Raises(TRUE) THEN [redis |-> r, calls |-> Attempt]
    ELSE [redis |-> RedisIncr(r, StatsKey(name)), calls |-> 1]

\* (mutation) a hit is counted as a miss
RecordCacheHit_AsMiss(r) == RecordCounter(r, "cache_misses")

RecordCacheHit(r) == RecordCounter(r, "cache_hits")
RecordCacheMiss(r) == RecordCounter(r, "cache_misses")

\* the entry cache_search_results writes
SearchEntry(query, filters, results) ==
    PyDict(("query" :> PyStr(query)) @@ ("filters" :> filters)
           @@ ("results" :> results) @@ ("timestamp" :> TimeTime)
           @@ ("count" :> PyInt(Len(results[2]))))

\* (mutation) the failure of the write is logged and success is reported
CacheSearchResults_ReportsSuccess(r, query, filters, results, ttl) ==
    IF ~IsAvailable THEN [ret |-> PyBool(FALSE), redis |-> r, calls |-> 0]
    ELSE IF ~Serializable(SearchEntry(query, filters, results))
         THEN [ret |-> PyBool(FALSE), redis |-> r, calls |-> 0]
    ELSE IF Raises(TRUE)
         THEN [ret |-> PyBool(TRUE), redis |-> r, calls |-> Attempt]
    ELSE [ret |-> PyBool(TRUE),
          redis |-> RedisSetex(r, SearchCacheKey(query, filters),
                               IF ttl = 0 THEN DefaultTtl ELSE ttl,
                               JsonDumps(SearchEntry(query, filters, results))),
          calls |-> 1]

\* cache_search_results(query, filters, results, ttl); ttl 0 stands for None
CacheSearchResults(r, query, filters, results, ttl) ==
    IF ~IsAvailable THEN [ret |-> PyBool(FALSE), redis |-> r, calls |-> 0]
    ELSE IF ~Serializable(SearchEntry(query, filters, results))
         THEN [ret |-> PyBool(FALSE), redis |-> r, calls |-> 0]
    ELSE IF Raises(TRUE)
         THEN [ret |-> PyBool(FALSE), redis |-> r, calls |-> Attempt]
    ELSE [ret |-> PyBool(TRUE),
          redis |-> RedisSetex(r, SearchCacheKey(query, filters),
                               IF ttl = 0 THEN DefaultTtl ELSE ttl,
                               JsonDumps(SearchEntry(query, filters, results))),
          calls |-> 1]

\* (mutation) the counters do not swallow their failure: it reaches the
\* handler of the lookup, which answers None
GetCachedSearchResults_CounterRaises(r, query, filters) ==
    LET cache_key == SearchCacheKey(query, filters)
        none == [ret |-> PyNone, redis |-> r, calls |-> 0,
                 under |-> NoSettings]
    IN  IF ~IsAvailable THEN none
        ELSE IF Raises(FALSE) THEN [none EXCEPT !.calls = Attempt]
        ELSE IF cache_key \notin DOMAIN r
             THEN [none EXCEPT !.redis = RecordCacheMiss(r).redis,
                               !.calls = 1 + RecordCacheMiss(r).calls]
        ELSE IF JsonLoads(r[cache_key][2]) = JSONDecodeError
             THEN [none EXCEPT !.calls = 1]
        ELSE IF Raises(TRUE) THEN [none EXCEPT !.calls = 2]
        ELSE [ret |-> JsonLoads(r[cache_key][2]),
              redis |-> RecordCacheHit(r).redis,
              calls |-> 1 + RecordCacheHit(r).calls,
              under |-> r[cache_key][4]]

\* get_cached_search_results(query, filters); under is the history of the
\* value that was read
GetCachedSearchResults(r, query, filters) ==
    LET cache_key == SearchCacheKey(query, filters)
        none == [ret |-> PyNone, redis |-> r, calls |-> 0,
                 under |-> NoSettings]
    IN  IF ~IsAvailable THEN none
        ELSE IF Raises(FALSE) THEN [none EXCEPT !.calls = Attempt]
        ELSE IF cache_key \notin DOMAIN r
             THEN [none EXCEPT !.redis = RecordCacheMiss(r).redis,
                               !.calls = 1 + RecordCacheMiss(r).calls]
        ELSE IF JsonLoads(r[cache_key][2]) = JSONDecodeError
             THEN [none EXCEPT !.calls = 1]
        ELSE [ret |-> JsonLoads(r[cache_key][2]),
              redis |-> RecordCacheHit(r).redis,
              calls |-> 1 + RecordCacheHit(r).calls,
              under |-> r[cache_key][4]]

\* the last index LTRIM keeps, and the daily counter's expiry
TrimEnd == 999
DailyTtl == 30 * 24 * 3600

RedisZincrby(r, key, member) ==
    IF key \in DOMAIN r
    THEN [r EXCEPT ![key] =
            <<"zset",
              IF member \in DOMAIN r[key][2]
              THEN [r[key][2] EXCEPT ![member] = @ + 1]
              ELSE (member :> 1) @@ r[key][2],
              r[key][3], NoSettings>>]
    ELSE (key :> <<"zset", (member :> 1), 0, NoSettings>>) @@ r

\* (mutation) the value is added at the far end of the list
RedisLpushTrim_Appends(r, key, value) ==
    LET old == IF key \in DOMAIN r THEN r[key][2] ELSE <<>>
        pushed == old \o <<value>>
        kept == SubSeq(pushed, 1,
                       IF Len(pushed) > TrimEnd + 1 THEN TrimEnd + 1
                       ELSE Len(pushed))
    IN  (key :> <<"list", kept, IF key \in DOMAIN r THEN r[key][3] ELSE 0,
                  NoSettings>>) @@ r

\* LPUSH key value, then LTRIM key 0 TrimEnd
RedisLpushTrim(r, key, value) ==
    LET old == IF key \in DOMAIN r THEN r[key][2] ELSE <<>>
        pushed == <<value>> \o old
        kept == SubSeq(pushed, 1,
                       IF Len(pushed) > TrimEnd + 1 THEN TrimEnd + 1
                       ELSE Len(pushed))
    IN  (key :> <<"list", kept, IF key \in DOMAIN r THEN r[key][3] ELSE 0,
                  NoSettings>>) @@ r

RedisExpire(r, key, ttl) ==
    IF key \in DOMAIN r THEN [r EXCEPT ![key][3] = ttl] ELSE r

\* the commands update_search_stats queues, applied by one pipe.execute()
StatsPipeline(r, query, result_count, response_time) ==
    LET daily_key == StatsKey("daily:" \o Today \o ":searches")
        r1 == RedisIncr(r, StatsKey("search_count"))
        r2 == RedisZincrby(r1, StatsKey("popular_queries"), query)
        r3 == RedisLpushTrim(r2, StatsKey("response_times"), response_time)
        r4 == RedisLpushTrim(r3, StatsKey("result_counts"), result_count)
        r5 == RedisIncr(r4, daily_key)
    IN  RedisExpire(r5, daily_key, DailyTtl)

\* update_search_stats(query, result_count, response_time)
UpdateSearchStats(r, query, result_count, response_time) ==
    IF ~IsAvailable THEN [ret |-> PyBool(FALSE), redis |-> r, calls |-> 0]
    ELSE IF Raises(TRUE)
         THEN [ret |-> PyBool(FALSE), redis |-> r, calls |-> Attempt]
    ELSE [ret |-> PyBool(TRUE),
          redis |-> StatsPipeline(r, query, result_count, response_time),
          calls |-> 1]

\* the commands update_search_stats queues on its pipeline, in order; LPUSH
\* and the LTRIM after it are one entry
StatsCommands(query, result_count, response_time) ==
    LET daily_key == StatsKey("daily:" \o Today \o ":searches")
    IN  <<[cmd |-> "incr", key |-> StatsKey("search_count"), arg |-> PyNone],
          [cmd |-> "zincrby", key |-> StatsKey("popular_queries"),
           arg |-> PyStr(query)],
          [cmd |-> "lpush", key |-> StatsKey("response_times"),
           arg |-> PyInt(response_time)],
          [cmd |-> "lpush", key |-> StatsKey("result_counts"),
           arg |-> PyInt(result_count)],
          [cmd |-> "incr", key |-> daily_key, arg |-> PyNone],
          [cmd |-> "expire", key |-> daily_key, arg |-> PyInt(DailyTtl)]>>

\* the server runs queued commands one after the other
RECURSIVE RunCommands(_, _)
RunCommands(r, commands) ==
    IF commands = <<>> THEN r
    ELSE LET c == commands[1]
             done == CASE c.cmd = "incr" -> RedisIncr(r, c.key)
                       [] c.cmd = "zincrby" -> RedisZincrby(r, c.key, c.arg[2])
                       [] c.cmd = "lpush" ->
                              RedisLpushTrim(r, c.key, c.arg[2])
                       [] c.cmd = "expire" -> RedisExpire(r, c.key, c.arg[2])
         IN  RunCommands(done, Tail(commands))

\* (mutation) the pipeline is not a transaction: the server takes the
\* commands one at a time and serves other clients in between
Chunk_OneByOne(queued) == 1

\* how many of the queued commands the server runs with no other client in
\* between: pipeline() is a transaction, execute() sends MULTI ... EXEC
Chunk(queued) == Len(queued)

\* clear_cache(pattern)
ClearCache(r, pattern) ==
    LET keys == RedisKeys(r, ConfigPrefix, pattern)
    IN  IF ~IsAvailable THEN [ret |-> PyInt(0), redis |-> r, calls |-> 0]
        ELSE IF Raises(FALSE)
             THEN [ret |-> PyInt(0), redis |-> r, calls |-> Attempt]
        ELSE IF keys = {} THEN [ret |-> PyInt(0), redis |-> r, calls |-> 1]
        ELSE IF Raises(TRUE)
             THEN [ret |-> PyInt(0), redis |-> r, calls |-> 2]
        ELSE [ret |-> PyInt(Cardinality(keys)),
              redis |-> RedisDelete(r, keys), calls |-> 2]

\* the 24 hours cache_embeddings and cache_model_metadata fall back to
DayTtl == 24 * 3600

\* cache_embeddings(text, embeddings, model_id, ttl) and
\* cache_model_metadata(model_id, metadata, ttl): the key, then one SETEX
\* whose failure is caught; ttl 0 stands for None
CacheEntry(r, cache_type, key, data, ttl) ==
    IF ~IsAvailable THEN [ret |-> PyBool(FALSE), redis |-> r, calls |-> 0]
    ELSE IF ~Serializable(data)
         THEN [ret |-> PyBool(FALSE), redis |-> r, calls |-> 0]
    ELSE IF Raises(TRUE)
         THEN [ret |-> PyBool(FALSE), redis |-> r, calls |-> Attempt]
    ELSE [ret |-> PyBool(TRUE),
          redis |-> RedisSetex(r, GetCacheKey(cache_type, key),
                               IF ttl = 0 THEN DayTtl ELSE ttl,
                               JsonDumps(data)),
          calls |-> 1]

\* get_cached_embeddings(text, model_id): the key of cache_embeddings, one
\* GET, and data.get("embeddings") of the decoded value; every failure is
\* caught and answered with None
GetCachedEmbeddings(r, text, model_id) ==
    LET cache_key == GetCacheKey("embeddings", model_id \o <<":">> \o text)
    IN  IF ~IsAvailable THEN [ret |-> PyNone, calls |-> 0]
        ELSE IF Raises(FALSE) THEN [ret |-> PyNone, calls |-> Attempt]
        ELSE IF cache_key \notin DOMAIN r THEN [ret |-> PyNone, calls |-> 1]
        ELSE \* json.loads raises, or the value has no method get
             IF \/ JsonLoads(r[cache_key][2]) = JSONDecodeError
                \/ JsonLoads(r[cache_key][2])[1] # "dict"
             THEN [ret |-> PyNone, calls |-> 1]
        ELSE IF "embeddings" \in DOMAIN JsonLoads(r[cache_key][2])[2]
             THEN [ret |-> JsonLoads(r[cache_key][2])[2]["embeddings"],
                   calls |-> 1]
        ELSE [ret |-> PyNone, calls |-> 1]

\* is_available() of the SphinxAICache the wrapper makes for the call: the
\* configuration is the one the process has, the connection is tried anew
WrapperCacheAvailable == cache_enabled /\ redis_client /\ redis_mode # "down"

\* the key of the wrapper: "func:<name>:<sha256 of the dumped arguments>",
\* without the namespace of the configuration
FuncKey(name, args) == <<"", "func:", <<name, PyDigest(JsonDumps(args))>>>>

\* [args, kwargs] of a call search(query)
SearchArgs(query) == PyList(<<PyList(<<PyStr(query)>>), PyDict(<<>>)>>)

\* (mutation) a stored value is returned and the function is run as well
CachedSearch_RunsAnyway(r, name, args, result, ttl, get_raises) ==
    LET fresh == WrapperCacheAvailable
        cache_key == FuncKey(name, args)
        Count(rr, counter) ==
            IF redis_mode = "up" THEN RedisIncr(rr, StatsKey(counter)) ELSE rr
        Execute(rr, sent) ==
            [ret |-> result,
             redis |-> IF redis_mode = "up"
                       THEN Count(RedisSetex(rr, cache_key, ttl,
                                             JsonDumps(result)),
                                  "cache_misses")
                       ELSE rr,
             calls |-> sent + (IF redis_mode = "up" THEN 2 ELSE 1),
             runs |-> 1]
    IN  IF ~fresh THEN [ret |-> result, redis |-> r, calls |-> 0, runs |-> 1]
        ELSE IF get_raises
             THEN [ret |-> <<"raise", "ConnectionError">>, redis |-> r,
                   calls |-> 1, runs |-> 0]
        ELSE IF cache_key \notin DOMAIN r THEN Execute(r, 1)
        ELSE IF JsonLoads(r[cache_key][2]) = JSONDecodeError
             THEN Execute(Count(r, "cache_hits"), 2)
        ELSE [ret |-> JsonLoads(r[cache_key][2]),
              redis |-> Count(r, "cache_hits"), calls |-> 2, runs |-> 1]

\* wrapper of cached_search(ttl) around a function that returns result for
\* args: GET, then on a value the hit is counted before the value is decoded;
\* otherwise the function runs, and SETEX and the count of the miss share one
\* try.  runs is the number of times the function was executed.  The GET
\* stands outside every try: get_raises says that the connection, which
\* answered the ping of the constructor, fails under it, and the exception
\* leaves the wrapper
CachedSearch(r, name, args, result, ttl, get_raises) ==
    LET fresh == WrapperCacheAvailable
        cache_key == FuncKey(name, args)
        Count(rr, counter) ==
            IF redis_mode = "up" THEN RedisIncr(rr, StatsKey(counter)) ELSE rr
        Execute(rr, sent) ==
            [ret |-> result,
             redis |-> IF redis_mode = "up"
                       THEN Count(RedisSetex(rr, cache_key, ttl,
                                             JsonDumps(result)),
                                  "cache_misses")
                       ELSE rr,
             calls |-> sent + (IF redis_mode = "up" THEN 2 ELSE 1),
             runs |-> 1]
    IN  IF ~fresh THEN [ret |-> result, redis |-> r, calls |-> 0, runs |-> 1]
        ELSE IF get_raises
             THEN [ret |-> <<"raise", "ConnectionError">>, redis |-> r,
                   calls |-> 1, runs |-> 0]
        ELSE IF cache_key \notin DOMAIN r THEN Execute(r, 1)
        ELSE IF JsonLoads(r[cache_key][2]) = JSONDecodeError
             THEN Execute(Count(r, "cache_hits"), 2)
        ELSE [ret |-> JsonLoads(r[cache_key][2]),
              redis |-> Count(r, "cache_hits"), calls |-> 2, runs |-> 0]

----------------------------------------------------------------------------
(* sphinx_integration.py: identifiers, the field list, query validation *)

Letters ==
    {"a", "b", "c", "d", "e", "f", "g", "h", "i", "j", "k", "l", "m", "n",
     "o", "p", "q", "r", "s", "t", "u", "v", "w", "x", "y", "z",
     "A", "B", "C", "D", "E", "F", "G", "H", "I", "J", "K", "L", "M", "N",
     "O", "P", "Q", "R", "S", "T", "U", "V", "W", "X", "Y", "Z"}

Digits == {"0", "1", "2", "3", "4", "5", "6", "7", "8", "9"}

\* x in list
In(x, list) == \E i \in 1..Len(list) : list[i] = x

\* _validate_index_name: the pattern ^[a-zA-Z0-9_\.]+$, then the list of
\* allowed names or the prefix "sphinx_"
ValidateIndexName(name) ==
    /\ name # <<>>
    /\ \A i \in 1..Len(name) : name[i] \in Letters \cup Digits \cup {"_", "."}
    /\ \/ name \in {<<"s", "p", "h", "i", "n", "x", "_", "m", "a", "i", "n">>,
                    <<"s", "p", "h", "i", "n", "x", "_",
                      "d", "e", "l", "t", "a">>,
                    <<"f", "o", "r", "u", "m", "_", "p", "o", "s", "t", "s">>,
                    <<"s", "m", "f", "_", "p", "o", "s", "t", "s">>,
                    <<"m", "a", "i", "n">>,
                    <<"d", "e", "l", "t", "a">>}
       \/ /\ Len(name) >= 7
          /\ SubSeq(name, 1, 7) = <<"s", "p", "h", "i", "n", "x", "_">>

\* _escape_identifier: quote characters removed, then wrapped in backticks
EscapeIdentifier(identifier) ==
    <<"backtick">>
    \o SelectSeq(identifier, LAMBDA c : c \notin {"backtick", "\"", "'"})
    \o <<"backtick">>

\* the name an escaped identifier stands for
Unquoted(identifier) == SelectSeq(identifier, LAMBDA c : c # "backtick")

allowed_fields ==
    {<<"i", "d">>,
     <<"t", "o", "p", "i", "c", "_", "i", "d">>,
     <<"p", "o", "s", "t", "_", "i", "d">>,
     <<"b", "o", "a", "r", "d", "_", "i", "d">>,
     <<"w", "e", "i", "g", "h", "t">>,
     <<"c", "o", "n", "t", "e", "n", "t">>,
     <<"b", "o", "d", "y">>,
     <<"m", "e", "s", "s", "a", "g", "e">>,
     <<"s", "u", "b", "j", "e", "c", "t">>,
     <<"t", "i", "t", "l", "e">>,
     <<"t", "o", "p", "i", "c", "_", "t", "i", "t", "l", "e">>,
     <<"p", "o", "s", "t", "e", "r", "_", "t", "i", "m", "e">>,
     <<"p", "o", "s", "t", "e", "r", "_", "n", "a", "m", "e">>,
     <<"b", "o", "a", "r", "d", "_", "n", "a", "m", "e">>}

\* _validate_field_name: the pattern ^[a-zA-Z_][a-zA-Z0-9_]*$, then the list
ValidateFieldName(field_name) ==
    /\ field_name # <<>>
    /\ field_name[1] \in Letters \cup {"_"}
    /\ \A i \in 2..Len(field_name) :
          field_name[i] \in Letters \cup Digits \cup {"_"}
    /\ field_name \in allowed_fields

dangerous_patterns ==
    {<<";">>, <<"-", "-">>, <<"/", "*">>, <<"*", "/">>,
     <<"u", "n", "i", "o", "n">>, <<"s", "e", "l", "e", "c", "t">>,
     <<"i", "n", "s", "e", "r", "t">>, <<"u", "p", "d", "a", "t", "e">>,
     <<"d", "e", "l", "e", "t", "e">>, <<"d", "r", "o", "p">>,
     <<"c", "r", "e", "a", "t", "e">>, <<"a", "l", "t", "e", "r">>,
     <<"e", "x", "e", "c">>}

\* the longest query _validate_search_query accepts
MaxQueryChars == 1000

\* (mutation) only the comment and statement punctuation is refused
ValidateSearchQuery_PunctuationOnly(query) ==
    /\ ~IsBlank(query)
    /\ \A query_lower \in {Lower(query)} :
          \A pattern \in {<<";">>, <<"-", "-">>, <<"/", "*">>, <<"*", "/">>} :
              ~Contains(query_lower, pattern)
    /\ Len(query) <= MaxQueryChars

\* _validate_search_query
ValidateSearchQuery(query) ==
    /\ ~IsBlank(query)
    /\ \A query_lower \in {Lower(query)} :
          \A pattern \in dangerous_patterns : ~Contains(query_lower, pattern)
    /\ Len(query) <= MaxQueryChars

\* (mutation) the fallback also names the content column
MinimalFields_WithContent ==
    <<<<"i", "d">>, <<"t", "o", "p", "i", "c", "_", "i", "d">>,
      <<"p", "o", "s", "t", "_", "i", "d">>,
      <<"b", "o", "a", "r", "d", "_", "i", "d">>,
      <<"c", "o", "n", "t", "e", "n", "t">>>>

\* the fields the probe falls back to
MinimalFields ==
    <<<<"i", "d">>, <<"t", "o", "p", "i", "c", "_", "i", "d">>,
      <<"p", "o", "s", "t", "_", "i", "d">>,
      <<"b", "o", "a", "r", "d", "_", "i", "d">>>>

\* "WEIGHT() as weight"
WeightProjection ==
    <<"W", "E", "I", "G", "H", "T", "(", ")", " ", "a", "s", " ",
      "w", "e", "i", "g", "h", "t">>

base_fields == <<<<"i", "d">>, WeightProjection>>

\* the columns _sphinx_search looks for, content then subject
ContentColumns ==
    <<<<"c", "o", "n", "t", "e", "n", "t">>, <<"b", "o", "d", "y">>,
      <<"m", "e", "s", "s", "a", "g", "e">>>>
SubjectColumns ==
    <<<<"s", "u", "b", "j", "e", "c", "t">>, <<"t", "i", "t", "l", "e">>,
      <<"t", "o", "p", "i", "c", "_", "t", "i", "t", "l", "e">>>>

\* for field in candidates: if field in present: append; break
FirstOf(candidates, present) ==
    LET hits == {i \in 1..Len(candidates) : candidates[i] \in present}
    IN  IF hits = {} THEN <<>>
        ELSE <<candidates[CHOOSE i \in hits : \A j \in hits : i <= j]>>

Range(list) == {list[i] : i \in 1..Len(list)}

\* (mutation) the optional fields are requested whatever the probe found
OptionalFields_Unprobed(fields, content) ==
    <<<<"t", "o", "p", "i", "c", "_", "i", "d">>,
      <<"p", "o", "s", "t", "_", "i", "d">>,
      <<"b", "o", "a", "r", "d", "_", "i", "d">>,
      ContentColumns[1], SubjectColumns[1]>>

\* optional_fields of _sphinx_search
OptionalFields(fields, content) ==
    SelectSeq(SubSeq(MinimalFields, 2, 4), LAMBDA f : In(f, fields))
    \o (IF content
        THEN FirstOf(ContentColumns, Range(fields))
             \o FirstOf(SubjectColumns, Range(fields))
        ELSE <<>>)

\* safe_fields of _sphinx_search: the valid names, escaped, in order
SafeFields(fields, content) ==
    LET all_fields == base_fields \o OptionalFields(fields, content)
        valid == SelectSeq(all_fields, ValidateFieldName)
    IN  IF valid = <<>> THEN MinimalFields
        ELSE [i \in 1..Len(valid) |-> EscapeIdentifier(valid[i])]

----------------------------------------------------------------------------
(* sphinx_integration.py: the connection, the probe, the search *)

\* (mutation) a connection is opened on every call, whatever handle is held
GetConnection_AlwaysConnects(conn) ==
    IF ~pymysql_available
    THEN [ok |-> FALSE, connection |-> conn, connects |-> 0]
    ELSE IF sphinx_mode = "up"
         THEN [ok |-> TRUE, connection |-> "open", connects |-> 1]
         ELSE [ok |-> FALSE, connection |-> conn, connects |-> 1]

\* (mutation) only a missing handle is replaced, a closed one is handed out
GetConnection_OnlyWhenNone(conn) ==
    IF ~pymysql_available
    THEN [ok |-> FALSE, connection |-> conn, connects |-> 0]
    ELSE IF conn = "None"
         THEN IF sphinx_mode = "up"
              THEN [ok |-> TRUE, connection |-> "open", connects |-> 1]
              ELSE [ok |-> FALSE, connection |-> conn, connects |-> 1]
    ELSE [ok |-> TRUE, connection |-> conn, connects |-> 0]

\* _get_connection.  The handle is None, open, stale (open on this side,
\* dead on the other) or closed
GetConnection(conn) ==
    IF ~pymysql_available
    THEN [ok |-> FALSE, connection |-> conn, connects |-> 0]
    ELSE IF conn \in {"None", "closed"}
         THEN IF sphinx_mode = "up"
              THEN [ok |-> TRUE, connection |-> "open", connects |-> 1]
              ELSE [ok |-> FALSE, connection |-> conn, connects |-> 1]
    ELSE [ok |-> TRUE, connection |-> conn, connects |-> 0]

\* content_in_index as _detect_index_fields computes it
ContentInIndex(fields) ==
    \E f \in {<<"c", "o", "n", "t", "e", "n", "t">>, <<"b", "o", "d", "y">>,
              <<"m", "e", "s", "s", "a", "g", "e">>, <<"t", "e", "x", "t">>} :
        In(f, fields)

NoAnswer == <<"error">>
EmptyIndex == <<"empty">>

\* (mutation) the columns found are added to the list the object holds
DetectIndexFields_Appending(conn) ==
    LET got == GetConnection(conn)
        escaped_index == EscapeIdentifier(index_name)
        describe_query == [kind |-> "describe", index |-> escaped_index]
        sample_query == [kind |-> "sample", index |-> escaped_index]
        held == IF conn = "None" THEN <<>> ELSE available_fields
        minimal ==
            [available_fields |-> MinimalFields, content_in_index |-> FALSE,
             connection |-> got.connection, connects |-> got.connects,
             used |-> FALSE, statements |-> <<>>,
             tier1 |-> "skipped", tier2 |-> "skipped"]
        Found(fields, t1, t2, stmts, c) ==
            [minimal EXCEPT !.available_fields = held \o fields,
                            !.content_in_index = ContentInIndex(held \o fields),
                            !.connection = c, !.used = TRUE,
                            !.statements = stmts,
                            !.tier1 = t1, !.tier2 = t2]
        both == <<describe_query, sample_query>>
    IN  IF ~got.ok THEN minimal
        ELSE IF ~ValidateIndexName(index_name)
             THEN [minimal EXCEPT !.used = TRUE]
        ELSE IF got.connection = "stale"
             THEN Found(MinimalFields, "failed", "failed", both, "closed")
        ELSE IF index.describe # NoAnswer
             THEN Found(index.describe, "answered", "skipped",
                        <<describe_query>>, "open")
        ELSE IF index.sample = NoAnswer
             THEN Found(MinimalFields, "failed", "failed", both, "open")
        ELSE IF index.sample = EmptyIndex
             THEN Found(MinimalFields, "failed", "empty", both, "open")
        ELSE Found(index.sample, "failed", "answered", both, "open")

\* (mutation) the sample statement is sent although the description answered
DetectIndexFields_SampleAlways(conn) ==
    LET got == GetConnection(conn)
        escaped_index == EscapeIdentifier(index_name)
        describe_query == [kind |-> "describe", index |-> escaped_index]
        sample_query == [kind |-> "sample", index |-> escaped_index]
        minimal ==
            [available_fields |-> MinimalFields, content_in_index |-> FALSE,
             connection |-> got.connection, connects |-> got.connects,
             used |-> FALSE, statements |-> <<>>,
             tier1 |-> "skipped", tier2 |-> "skipped"]
        Found(fields, t1, t2, stmts, c) ==
            [minimal EXCEPT !.available_fields = fields,
                            !.content_in_index = ContentInIndex(fields),
                            !.connection = c, !.used = TRUE,
                            !.statements = stmts,
                            !.tier1 = t1, !.tier2 = t2]
        both == <<describe_query, sample_query>>
    IN  IF ~got.ok THEN minimal
        ELSE IF ~ValidateIndexName(index_name)
             THEN [minimal EXCEPT !.used = TRUE]
        ELSE IF got.connection = "stale"
             THEN Found(MinimalFields, "failed", "failed", both, "closed")
        ELSE IF index.describe # NoAnswer
             THEN Found(index.describe, "answered", "answered", both, "open")
        ELSE IF index.sample = NoAnswer
             THEN Found(MinimalFields, "failed", "failed", both, "open")
        ELSE IF index.sample = EmptyIndex
             THEN Found(MinimalFields, "failed", "empty", both, "open")
        ELSE Found(index.sample, "failed", "answered", both, "open")

\* _detect_index_fields.  index.describe and index.sample are what the
\* engine answers to the two statements: a list of columns, NoAnswer when the
\* statement fails, EmptyIndex when the sample has no row
DetectIndexFields(conn) ==
    LET got == GetConnection(conn)
        escaped_index == EscapeIdentifier(index_name)
        describe_query == [kind |-> "describe", index |-> escaped_index]
        sample_query == [kind |-> "sample", index |-> escaped_index]
        minimal ==
            [available_fields |-> MinimalFields, content_in_index |-> FALSE,
             connection |-> got.connection, connects |-> got.connects,
             used |-> FALSE, statements |-> <<>>,
             tier1 |-> "skipped", tier2 |-> "skipped"]
        Found(fields, t1, t2, stmts, c) ==
            [minimal EXCEPT !.available_fields = fields,
                            !.content_in_index = ContentInIndex(fields),
                            !.connection = c, !.used = TRUE,
                            !.statements = stmts,
                            !.tier1 = t1, !.tier2 = t2]
        both == <<describe_query, sample_query>>
    IN  IF ~got.ok THEN minimal
        ELSE IF ~ValidateIndexName(index_name)
             THEN [minimal EXCEPT !.used = TRUE]
        ELSE IF got.connection = "stale"
             THEN Found(MinimalFields, "failed", "failed", both, "closed")
        ELSE IF index.describe # NoAnswer
             THEN Found(index.describe, "answered", "skipped",
                        <<describe_query>>, "open")
        ELSE IF index.sample = NoAnswer
             THEN Found(MinimalFields, "failed", "failed", both, "open")
        ELSE IF index.sample = EmptyIndex
             THEN Found(MinimalFields, "failed", "empty", both, "open")
        ELSE Found(index.sample, "failed", "answered", both, "open")

\* the value of a column in row number i of the answer
RowValue(column, i) ==
    IF column \in Range(ContentColumns) \cup Range(SubjectColumns)
    THEN PyStr(column) ELSE PyInt(i)

\* row.get(column)
RowGet(row, column) == IF column \in DOMAIN row THEN row[column] ELSE PyNone

\* (mutation) needs_content_fetch repeats content_in_index
SearchResult_SameFlag(row, content) ==
    LET attrs == ("topic_id" :> RowGet(row, MinimalFields[2]))
                 @@ ("post_id" :> RowGet(row, MinimalFields[3]))
                 @@ ("board_id" :> RowGet(row, MinimalFields[4]))
        text == FirstOf(ContentColumns, DOMAIN row)
        subject == FirstOf(SubjectColumns, DOMAIN row)
    IN  PyDict(
            attrs @@ ("id" :> RowGet(row, MinimalFields[1]))
            @@ ("weight" :> IF <<"w", "e", "i", "g", "h", "t">> \in DOMAIN row
                            THEN row[<<"w", "e", "i", "g", "h", "t">>]
                            ELSE PyInt(0))
            @@ ("content_in_index" :> PyBool(content))
            @@ ("needs_content_fetch" :> PyBool(content))
            @@ ("attrs" :> PyDict(attrs))
            @@ (IF content /\ text # <<>>
                THEN "content" :> row[text[1]] ELSE <<>>)
            @@ (IF content /\ subject # <<>>
                THEN "subject" :> row[subject[1]] ELSE <<>>))

\* one entry of the list _sphinx_search returns
SearchResult(row, content) ==
    LET attrs == ("topic_id" :> RowGet(row, MinimalFields[2]))
                 @@ ("post_id" :> RowGet(row, MinimalFields[3]))
                 @@ ("board_id" :> RowGet(row, MinimalFields[4]))
        text == FirstOf(ContentColumns, DOMAIN row)
        subject == FirstOf(SubjectColumns, DOMAIN row)
    IN  PyDict(
            attrs @@ ("id" :> RowGet(row, MinimalFields[1]))
            @@ ("weight" :> IF <<"w", "e", "i", "g", "h", "t">> \in DOMAIN row
                            THEN row[<<"w", "e", "i", "g", "h", "t">>]
                            ELSE PyInt(0))
            @@ ("content_in_index" :> PyBool(content))
            @@ ("needs_content_fetch" :> PyBool(~content))
            @@ ("attrs" :> PyDict(attrs))
            @@ (IF content /\ text # <<>>
                THEN "content" :> row[text[1]] ELSE <<>>)
            @@ (IF content /\ subject # <<>>
                THEN "subject" :> row[subject[1]] ELSE <<>>))

\* what the engine may do with a search statement: answer with 0 or 2 rows,
\* refuse it, or drop the connection
Outcomes == {"rows0", "rows2", "refused", "lost"}

\* (mutation) the handler reports the error as an entry of the list
ExceptReturn_ErrorEntry == PyList(<<PyDict("query" :> PyStr(<<>>))>>)

\* except Exception: return []
ExceptReturn == PyList(<<>>)

\* (mutation) the match text is written into the statement
SearchStatement_Interpolated(safe_fields, escaped_query, limit) ==
    [kind |-> "search", fields |-> safe_fields,
     index |-> EscapeIdentifier(index_name),
     where |-> <<"M", "A", "T", "C", "H", "(", "'">> \o escaped_query
               \o <<"'", ")">>,
     order |-> "weight DESC", count |-> <<"?">>,
     match |-> escaped_query, limit |-> limit]

\* cursor.execute(sql, (escaped_query, limit)): the text of the statement,
\* SELECT fields FROM index WHERE MATCH(?) ORDER BY weight DESC LIMIT ?,
\* and the two values bound to its placeholders, match and limit
SearchStatement(safe_fields, escaped_query, limit) ==
    [kind |-> "search", fields |-> safe_fields,
     index |-> EscapeIdentifier(index_name),
     where |-> <<"M", "A", "T", "C", "H", "(", "?", ")">>,
     order |-> "weight DESC", count |-> <<"?">>,
     match |-> escaped_query, limit |-> limit]

\* _sphinx_search(query, limit) on the handle conn: every result the call
\* can have, one for each thing the engine may do with the statement;
\* raised names the exception the call caught
SphinxSearch(conn, query, limit) ==
    LET got == GetConnection(conn)
        none == [ret |-> PyList(<<>>), connection |-> got.connection,
                 connects |-> got.connects, used |-> FALSE,
                 statements |-> <<>>, raised |-> "none"]
        safe_fields == SafeFields(available_fields, content_in_index)
        columns == {Unquoted(safe_fields[i]) : i \in 1..Len(safe_fields)}
        Results(rows) ==
            [i \in 1..rows |->
                SearchResult([c \in columns |-> RowValue(c, i)],
                             content_in_index)]
        Execute(sql, outcome) ==
            IF got.connection = "stale" \/ outcome = "lost"
            THEN [none EXCEPT !.used = TRUE, !.statements = <<sql>>,
                              !.connection = "closed",
                              !.ret = ExceptReturn,
                              !.raised = "OperationalError"]
            ELSE IF outcome = "refused"
                 THEN [none EXCEPT !.used = TRUE, !.statements = <<sql>>,
                                   !.ret = ExceptReturn,
                                   !.raised = "ProgrammingError"]
            ELSE [none EXCEPT !.used = TRUE, !.statements = <<sql>>,
                              !.ret = PyList(Results(IF outcome = "rows2"
                                                     THEN 2 ELSE 0))]
        Build(escaped_query) ==
            IF ~ValidateSearchQuery(escaped_query)
            THEN {[none EXCEPT !.used = TRUE, !.ret = ExceptReturn,
                               !.raised = "ValueError"]}
            ELSE {Execute(sql, outcome) :
                    sql \in {SearchStatement(safe_fields, escaped_query,
                                             limit)},
                    outcome \in Outcomes}
    IN  IF ~got.ok THEN {none}
        ELSE UNION {Build(escaped_query) : escaped_query \in
                        {ReplaceChar(ReplaceChar(query, "'", <<"\\", "'">>),
                                     "\"", <<"\\", "\"">>)}}

\* filters search_polish hands to the cache
SearchFilters(limit) ==
    PyDict(("limit" :> PyInt(limit)) @@ ("index" :> PyStr(index_name)))

\* (mutation) the result of the search is stored whether it is empty or not
SearchPolish_StoresEmpty(query, limit) ==
    LET filters == SearchFilters(limit)
        Hit(cached) ==
            LET hit == RecordCacheHit(cached.redis)
            IN  [ret |-> IF "results" \in DOMAIN cached.ret[2]
                         THEN cached.ret[2]["results"] ELSE PyList(<<>>),
                 redis |-> hit.redis, calls |-> cached.calls + hit.calls,
                 connection |-> connection, connects |-> 0,
                 used |-> FALSE, statements |-> <<>>, cached |-> TRUE,
                 raised |-> "none"]
        Miss(processed_query, cached, miss, found) ==
            LET stored == CacheSearchResults(miss.redis, processed_query,
                                             filters, found.ret, 1800)
            IN  [ret |-> found.ret, redis |-> stored.redis,
                 calls |-> cached.calls + miss.calls + stored.calls,
                 connection |-> found.connection,
                 connects |-> found.connects, used |-> found.used,
                 statements |-> found.statements, cached |-> FALSE,
                 raised |-> found.raised]
        Run(processed_query, cached) ==
            IF cached.ret # PyNone THEN {Hit(cached)}
            ELSE {Miss(processed_query, cached, miss, found) :
                    miss \in {RecordCacheMiss(cached.redis)},
                    found \in SphinxSearch(connection, processed_query,
                                           limit)}
        Lookup(processed_query) ==
            UNION {Run(processed_query, cached) : cached \in
                     {GetCachedSearchResults(redis, processed_query,
                                             filters)}}
    IN  UNION {Lookup(processed_query) : processed_query \in
                 {PreprocessPolishQuery(query).combined}}

\* (mutation) the engine is searched although the cache answered
SearchPolish_SearchesOnHit(query, limit) ==
    LET filters == SearchFilters(limit)
        Hit(cached, found) ==
            LET hit == RecordCacheHit(cached.redis)
            IN  [ret |-> IF "results" \in DOMAIN cached.ret[2]
                         THEN cached.ret[2]["results"] ELSE PyList(<<>>),
                 redis |-> hit.redis, calls |-> cached.calls + hit.calls,
                 connection |-> found.connection,
                 connects |-> found.connects,
                 used |-> found.used, statements |-> found.statements,
                 cached |-> TRUE, raised |-> "none"]
        Miss(processed_query, cached, miss, found) ==
            LET stored ==
                    IF found.ret[2] # <<>>
                    THEN CacheSearchResults(miss.redis, processed_query,
                                            filters, found.ret, 1800)
                    ELSE [ret |-> PyBool(FALSE), redis |-> miss.redis,
                          calls |-> 0]
            IN  [ret |-> found.ret, redis |-> stored.redis,
                 calls |-> cached.calls + miss.calls + stored.calls,
                 connection |-> found.connection,
                 connects |-> found.connects, used |-> found.used,
                 statements |-> found.statements, cached |-> FALSE,
                 raised |-> found.raised]
        Run(processed_query, cached) ==
            IF cached.ret # PyNone
            THEN {Hit(cached, found) :
                    found \in SphinxSearch(connection, processed_query,
                                           limit)}
            ELSE {Miss(processed_query, cached, miss, found) :
                    miss \in {RecordCacheMiss(cached.redis)},
                    found \in SphinxSearch(connection, processed_query,
                                           limit)}
        Lookup(processed_query) ==
            UNION {Run(processed_query, cached) : cached \in
                     {GetCachedSearchResults(redis, processed_query,
                                             filters)}}
    IN  UNION {Lookup(processed_query) : processed_query \in
                 {PreprocessPolishQuery(query).combined}}

\* search_polish(query, limit): the cache is asked first; a miss runs the
\* search and a non-empty result is stored for 30 minutes.  Every result
\* the call can have.
SearchPolish(query, limit) ==
    LET filters == SearchFilters(limit)
        Hit(cached) ==
            LET hit == RecordCacheHit(cached.redis)
            IN  [ret |-> IF "results" \in DOMAIN cached.ret[2]
                         THEN cached.ret[2]["results"] ELSE PyList(<<>>),
                 redis |-> hit.redis, calls |-> cached.calls + hit.calls,
                 connection |-> connection, connects |-> 0,
                 used |-> FALSE, statements |-> <<>>, cached |-> TRUE,
                 raised |-> "none"]
        Miss(processed_query, cached, miss, found) ==
            LET stored ==
                    IF found.ret[2] # <<>>
                    THEN CacheSearchResults(miss.redis, processed_query,
                                            filters, found.ret, 1800)
                    ELSE [ret |-> PyBool(FALSE), redis |-> miss.redis,
                          calls |-> 0]
            IN  [ret |-> found.ret, redis |-> stored.redis,
                 calls |-> cached.calls + miss.calls + stored.calls,
                 connection |-> found.connection,
                 connects |-> found.connects, used |-> found.used,
                 statements |-> found.statements, cached |-> FALSE,
                 raised |-> found.raised]
        Run(processed_query, cached) ==
            IF cached.ret # PyNone THEN {Hit(cached)}
            ELSE {Miss(processed_query, cached, miss, found) :
                    miss \in {RecordCacheMiss(cached.redis)},
                    found \in SphinxSearch(connection, processed_query,
                                           limit)}
        Lookup(processed_query) ==
            UNION {Run(processed_query, cached) : cached \in
                     {GetCachedSearchResults(redis, processed_query,
                                             filters)}}
    IN  UNION {Lookup(processed_query) : processed_query \in
                 {PreprocessPolishQuery(query).combined}}

\* the record of the last call of the client: what it returned and what it
\* sent; tier1 and tier2 tell how the latest probe fared
NoSearch ==
    [op |-> "none", query |-> <<>>, limit |-> 0, ret |-> PyNone,
     calls |-> 0, connects |-> 0, used |-> FALSE, statements |-> <<>>,
     cached |-> FALSE, raised |-> "none",
     tier1 |-> "skipped", tier2 |-> "skipped"]

\* no client has been made
ClientIdle ==
    /\ index_name = <<>> /\ connection = "None" /\ available_fields = <<>>
    /\ content_in_index = FALSE /\ pymysql_available = FALSE
    /\ sphinx_mode = "down"
    /\ index = [describe |-> NoAnswer, sample |-> NoAnswer]
    /\ call = NoSearch

----------------------------------------------------------------------------
(* The cache on its own: calls of its public methods in any order, while   *)
(* the host changes the environment and the server changes state           *)

CacheQueries == {<<"k", "o", "t">>, <<"p", "i", "e", "s">>}

CacheFilters == {PyDict(<<>>), PyDict("board" :> PyInt(1))}

ResultRow(id) == PyDict(("id" :> PyInt(id)) @@ ("weight" :> PyInt(7)))

CacheResults ==
    {PyList(<<>>), PyList(<<ResultRow(1), ResultRow(2)>>),
     PyList(<<PyDict("id" :> PyDecimal)>>)}

EnvironNames ==
    {"SPHINX_AI_MODEL_PATH", "SPHINX_AI_MODEL_TYPE", "SPHINX_AI_MAX_RESULTS"}

\* the last call of the cache: arguments, result, requests sent, the
\* settings the value read was written under, runs of a wrapped function,
\* the pattern given to clear_cache
NoCall ==
    [op |-> "none", query |-> <<>>, filters |-> PyNone, results |-> PyNone,
     ret |-> PyNone, calls |-> 0, under |-> NoSettings, runs |-> 0,
     pattern |-> ""]

Step ==
    /\ ops < MaxOps /\ ops' = ops + 1
    /\ UNCHANGED queryVars /\ UNCHANGED clientVars
    /\ UNCHANGED <<threads, sockets, pipe>>

NotRun == [done |-> FALSE, normalized |-> <<>>, combined |-> <<>>]

QueryIdle == raw = <<>> /\ sq = NotRun

CacheIdle ==
    /\ cache_enabled = FALSE /\ is_connected = FALSE /\ redis_client = FALSE
    /\ redis = <<>> /\ redis_mode = "down"
    /\ environ = [name \in EnvironNames |-> Unset]
    /\ last = NoCall /\ ops = 0

InitCache ==
    /\ redis_mode \in {"up", "readonly", "down"}
    /\ \E cfg \in CacheConfigs :
          LET made == SphinxAICacheInit(cfg, redis_mode # "down")
          IN  /\ cache_enabled = made.cache_enabled
              /\ is_connected = made.is_connected
              /\ redis_client = made.redis_client
    /\ redis = <<>>
    /\ environ = [name \in EnvironNames |-> Unset]
    /\ last = NoCall
    /\ ops = 0
    /\ QueryIdle
    /\ ClientIdle
    /\ threads = <<>> /\ sockets = <<>> /\ pipe = <<>>

\* cache_search_results with ttl None (0) or the 30 minutes search_polish
\* passes
CallCacheSearchResults ==
    \E query \in CacheQueries, filters \in CacheFilters,
       results \in CacheResults, ttl \in {0, 1800} :
        LET out == CacheSearchResults(redis, query, filters, results, ttl)
        IN  /\ Step
            /\ redis' = out.redis
            /\ last' = [NoCall EXCEPT !.op = "cache_search_results",
                                      !.query = query, !.filters = filters,
                                      !.results = results, !.ret = out.ret,
                                      !.calls = out.calls]
            /\ UNCHANGED <<cacheObject, redis_mode, environ>>

CallGetCachedSearchResults ==
    \E query \in CacheQueries, filters \in CacheFilters :
        LET out == GetCachedSearchResults(redis, query, filters)
        IN  /\ Step
            /\ redis' = out.redis
            /\ last' = [NoCall EXCEPT !.op = "get_cached_search_results",
                                      !.query = query, !.filters = filters,
                                      !.ret = out.ret, !.calls = out.calls,
                                      !.under = out.under]
            /\ UNCHANGED <<cacheObject, redis_mode, environ>>

CallUpdateSearchStats ==
    \E query \in CacheQueries, result_count \in {0, 2} :
        LET out == UpdateSearchStats(redis, query, result_count, 1)
        IN  /\ Step
            /\ redis' = out.redis
            /\ last' = [NoCall EXCEPT !.op = "update_search_stats",
                                      !.query = query, !.ret = out.ret,
                                      !.calls = out.calls]
            /\ UNCHANGED <<cacheObject, redis_mode, environ>>

CallClearCache ==
    \E pattern \in {"*", "search:*", "embeddings:*"} :
        LET out == ClearCache(redis, pattern)
        IN  /\ Step
            /\ redis' = out.redis
            /\ last' = [NoCall EXCEPT !.op = "clear_cache",
                                      !.pattern = pattern,
                                      !.ret = out.ret, !.calls = out.calls]
            /\ UNCHANGED <<cacheObject, redis_mode, environ>>

\* close(): the client is closed (errors ignored) and the flag cleared
CallClose ==
    /\ Step
    /\ is_connected' = IF redis_client THEN FALSE ELSE is_connected
    /\ last' = [NoCall EXCEPT !.op = "close"]
    /\ UNCHANGED <<cache_enabled, redis_client, redis, redis_mode, environ>>

\* the host process sets or unsets one of the variables the version reads
SetEnviron ==
    \E name \in EnvironNames,
       value \in {Unset, PyStr(<<"5", "0">>), PyStr(<<"9">>)} :
        /\ environ[name] # value
        /\ Step
        /\ environ' = [environ EXCEPT ![name] = value]
        /\ last' = [NoCall EXCEPT !.op = "environ"]
        /\ UNCHANGED <<cacheObject, redis, redis_mode>>

\* the server goes down, comes back, or starts refusing writes
ServerChange ==
    \E mode \in {"up", "readonly", "down"} :
        /\ redis_mode # mode
        /\ Step
        /\ redis_mode' = mode
        /\ last' = [NoCall EXCEPT !.op = "server"]
        /\ UNCHANGED <<cacheObject, redis, environ>>

\* the server drops a key whose time to live has run out
Expire ==
    \E key \in DOMAIN redis :
        /\ redis[key][3] > 0
        /\ Step
        /\ redis' = RedisDelete(redis, {key})
        /\ last' = [NoCall EXCEPT !.op = "expire"]
        /\ UNCHANGED <<cacheObject, redis_mode, environ>>

\* a stored payload loses its end (a writer cut short, a damaged value):
\* json.loads will raise on it
Corrupt ==
    \E key \in DOMAIN redis :
        /\ redis[key][1] = "string"
        /\ JsonLoads(redis[key][2]) # JSONDecodeError
        /\ Step
        /\ redis' = [redis EXCEPT ![key][2] = SubSeq(@, 1, Len(@) - 1)]
        /\ last' = [NoCall EXCEPT !.op = "corrupt"]
        /\ UNCHANGED <<cacheObject, redis_mode, environ>>

Next ==
    \/ CallCacheSearchResults
    \/ CallGetCachedSearchResults
    \/ CallUpdateSearchStats
    \/ CallClearCache
    \/ CallClose
    \/ SetEnviron
    \/ ServerChange
    \/ Expire
    \/ Corrupt

----------------------------------------------------------------------------
(* The text functions on their own: every short query over QueryAlphabet *)

QueryAlphabet == {" ", "i", "I", "k", "e", "z_dot", "|"}

ShortQueries == UNION {[1..n -> QueryAlphabet] : n \in 0..MaxQueryLen}

InitQuery ==
    /\ raw \in ShortQueries
    /\ sq = NotRun
    /\ CacheIdle
    /\ ClientIdle
    /\ threads = <<>> /\ sockets = <<>> /\ pipe = <<>>

Preprocess ==
    /\ ~sq.done
    /\ sq' = [done |-> TRUE,
              normalized |-> PreprocessPolishQuery(raw).normalized,
              combined |-> PreprocessPolishQuery(raw).combined]
    /\ UNCHANGED raw
    /\ UNCHANGED cacheVars
    /\ UNCHANGED clientVars
    /\ UNCHANGED <<threads, sockets, pipe>>

SpecQuery == InitQuery /\ [][Preprocess]_vars

Spec == InitCache /\ [][Next]_vars

----------------------------------------------------------------------------
(* A cache in use: the server already holds entries of every category, and *)
(* entries are written, looked up, cleared and served to wrapped functions *)

\* what the server holds after one search and its result, one embedding and
\* one model description were cached and the search was counted
Populated ==
    LET stored == RedisSetex(<<>>, SearchCacheKey(<<"k", "o", "t">>,
                                                 PyDict(<<>>)),
                             1800,
                             JsonDumps(SearchEntry(<<"k", "o", "t">>,
                                                   PyDict(<<>>),
                                                   PyList(<<ResultRow(1)>>))))
        embedded == RedisSetex(stored,
                               GetCacheKey("embeddings",
                                           <<"m", ":", "k", "o", "t">>),
                               DayTtl,
                               JsonDumps(PyDict(
                                   ("text" :> PyStr(<<"k", "o", "t">>))
                                   @@ ("embeddings" :> PyList(<<PyInt(1)>>))
                                   @@ ("model_id" :> PyStr(<<"m">>))
                                   @@ ("timestamp" :> TimeTime))))
        described == RedisSetex(embedded, GetCacheKey("model", <<"m">>),
                                DayTtl,
                                JsonDumps(PyDict("model_type" :>
                                                    PyStr(<<"x">>))))
    IN  RedisIncr(StatsPipeline(described, <<"k", "o", "t">>, 1, 1),
                  StatsKey("cache_misses"))

\* the cache object is available, disabled by its configuration, or closed
InitEntries ==
    /\ redis_mode = "up"
    /\ \E made \in {SphinxAICacheInit(cfg, TRUE) : cfg \in CacheConfigs} :
          /\ cache_enabled = made.cache_enabled
          /\ redis_client = made.redis_client
          /\ is_connected \in {made.is_connected, FALSE}
    /\ environ = [name \in EnvironNames |-> Unset]
    /\ redis = Populated
    /\ last = NoCall
    /\ ops = 0
    /\ QueryIdle
    /\ ClientIdle
    /\ threads = <<>> /\ sockets = <<>> /\ pipe = <<>>

\* (text, model_id, embeddings) of the calls made: the pair that is already
\* stored, and two pairs whose model id or text holds the separator
EmbeddingInputs ==
    {[text |-> <<"k", "o", "t">>, model_id |-> <<"m">>,
      embeddings |-> PyList(<<PyInt(1), PyInt(2)>>)],
     [text |-> <<"b", ":", "c">>, model_id |-> <<"a">>,
      embeddings |-> PyList(<<PyInt(3)>>)],
     [text |-> <<"c">>, model_id |-> <<"a", ":", "b">>,
      embeddings |-> PyList(<<PyInt(4)>>)]}

\* cache_embeddings(text, embeddings, model_id): key_data is
\* f"{model_id}:{text}"
CallCacheEmbeddings ==
    \E input \in EmbeddingInputs, ttl \in {0} :
        \E out \in {CacheEntry(redis, "embeddings",
                                input.model_id \o <<":">> \o input.text,
                                PyDict(("text" :> PyStr(input.text))
                                       @@ ("embeddings" :> input.embeddings)
                                       @@ ("model_id" :> PyStr(input.model_id))
                                       @@ ("timestamp" :> TimeTime)),
                                ttl)} :
            /\ Step
            /\ redis' = out.redis
            /\ last' = [NoCall EXCEPT !.op = "cache_embeddings",
                                      !.query = input.text,
                                      !.filters = PyStr(input.model_id),
                                      !.results = input.embeddings,
                                      !.ret = out.ret,
                                      !.calls = out.calls]
            /\ UNCHANGED <<cacheObject, redis_mode, environ>>

\* get_cached_embeddings(text, model_id) for the same pairs
CallGetCachedEmbeddings ==
    \E input \in EmbeddingInputs :
        \E out \in {GetCachedEmbeddings(redis, input.text, input.model_id)} :
            /\ Step
            /\ last' = [NoCall EXCEPT !.op = "get_cached_embeddings",
                                      !.query = input.text,
                                      !.filters = PyStr(input.model_id),
                                      !.ret = out.ret,
                                      !.calls = out.calls]
            /\ UNCHANGED <<cacheObject, redis, redis_mode, environ>>

\* cache_model_metadata for the model "m"
CallCacheModelMetadata ==
    \E metadata \in {PyDict("model_type" :> PyStr(<<"x">>)),
                      PyDict("model_type" :> PyDecimal)} :
        \E out \in {CacheEntry(redis, "model", <<"m">>, metadata, 0)} :
            /\ Step
            /\ redis' = out.redis
            /\ last' = [NoCall EXCEPT !.op = "cache_model_metadata",
                                      !.results = metadata, !.ret = out.ret,
                                      !.calls = out.calls]
            /\ UNCHANGED <<cacheObject, redis_mode, environ>>

\* a call of a function search(query) wrapped by cached_search(ttl); the
\* connection may fail between the constructor of the cache and the GET
CallCachedSearch ==
    \E query \in CacheQueries, ttl \in {1800},
       result \in {PyList(<<>>), PyList(<<ResultRow(1), ResultRow(2)>>)},
       get_raises \in BOOLEAN :
        \E out \in {CachedSearch(redis, "search", SearchArgs(query),
                                  result, ttl, get_raises)} :
            /\ Step
            /\ redis' = out.redis
            /\ last' = [NoCall EXCEPT !.op = "cached_search",
                                      !.query = query, !.filters = PyInt(ttl),
                                      !.results = result, !.ret = out.ret,
                                      !.calls = out.calls, !.runs = out.runs]
            /\ UNCHANGED <<cacheObject, redis_mode, environ>>

NextEntries ==
    \/ CallCacheEmbeddings
    \/ CallGetCachedEmbeddings
    \/ CallCacheModelMetadata
    \/ CallCachedSearch
    \/ CallGetCachedSearchResults
    \/ CallClearCache
    \/ ServerChange
    \/ Corrupt

SpecEntries == InitEntries /\ [][NextEntries]_vars

----------------------------------------------------------------------------
(* The search client: one SphinxIntegrationPolish with its cache, searches *)
(* and probes in any order while the engine goes down and comes back       *)

\* "smf_polish_posts", the name __init__ sets, and "sphinx_main", one the
\* validation accepts
IndexNames ==
    {<<"s", "m", "f", "_", "p", "o", "l", "i", "s", "h", "_",
       "p", "o", "s", "t", "s">>,
     <<"s", "p", "h", "i", "n", "x", "_", "m", "a", "i", "n">>}

\* what the engine answers to DESCRIBE and to SELECT * ... LIMIT 1
Indexes ==
    LET full == MinimalFields \o <<ContentColumns[1], SubjectColumns[1]>>
        body == <<MinimalFields[1], MinimalFields[3],
                  ContentColumns[2], SubjectColumns[2]>>
        text == <<MinimalFields[1], MinimalFields[2], <<"t", "e", "x", "t">>>>
        no_id == <<MinimalFields[2], ContentColumns[1]>>
        extra == <<MinimalFields[1], ContentColumns[1],
                   <<"p", "a", "s", "s", "w", "d">>>>
    IN  {[describe |-> full, sample |-> full],
         [describe |-> text, sample |-> text],
         [describe |-> no_id, sample |-> no_id],
         [describe |-> extra, sample |-> extra],
         [describe |-> NoAnswer, sample |-> body],
         [describe |-> NoAnswer, sample |-> EmptyIndex],
         [describe |-> NoAnswer, sample |-> NoAnswer]}

\* where the client runs: with the driver, every engine state, name and
\* index; without it the engine is never reached, so one of each is kept
Sites ==
    LET all == [pymysql_available : BOOLEAN, sphinx_mode : {"up", "down"},
                index_name : IndexNames, index : Indexes]
        quiet == [describe |-> NoAnswer, sample |-> NoAnswer]
    IN  {site \in all :
            \/ /\ site.pymysql_available
               /\ ValidateIndexName(site.index_name) \/ site.index = quiet
            \/ /\ ~site.pymysql_available
               /\ site.sphinx_mode = "up"
               /\ ~ValidateIndexName(site.index_name)
               /\ site.index = quiet}

\* a query one character longer than _validate_search_query accepts
LongQuery == [i \in 1..(MaxQueryChars + 1) |-> "x"]

\* queries that hold one dangerous pattern each, in mixed letter case
DangerousQueries ==
    {<<"a", ";", "b">>, <<"k", "o", "t", "-", "-">>, <<"/", "*", "k">>,
     <<"k", "*", "/">>, <<"U", "n", "i", "o", "n">>,
     <<"S", "E", "L", "E", "C", "T", " ", "k">>,
     <<"i", "n", "S", "e", "r", "t">>, <<"u", "p", "d", "a", "t", "e", "d">>,
     <<"D", "e", "l", "e", "t", "e">>, <<"i", " ", "D", "R", "O", "P">>,
     <<"r", "e", "C", "r", "e", "a", "t", "e">>, <<"a", "l", "t", "e", "r">>,
     <<"E", "x", "e", "c">>}

\* plain, with diacritics, empty, blank, a stopword, a quote, a word that
\* folds into a dangerous one, and the over-long query
SearchQueries ==
    {<<"k", "o", "t">>, <<"z_dot", "o_ac", "l_st", "w">>, <<>>, <<" ">>,
     <<"i">>, <<"o", "'", "k">>, <<"s", "e_og", "l", "e", "c", "t">>,
     LongQuery}
    \cup DangerousQueries

\* the calls made: every query with limit 10, two of them with limit 20
SearchInputs ==
    {<<query, 10>> : query \in SearchQueries}
    \cup {<<query, 20>> : query \in {<<"k", "o", "t">>, <<"o", "'", "k">>}}

ClientStep ==
    /\ ops < MaxCalls /\ ops' = ops + 1
    /\ UNCHANGED queryVars
    /\ UNCHANGED <<threads, sockets, pipe>>

\* the state __init__ leaves: the cache is made (configured for Redis, the
\* library present, enabled or not), then the index is probed
InitSearch ==
    /\ redis_mode = "up"
    /\ \E made \in {SphinxAICacheInit(cfg, redis_mode # "down") :
                       cfg \in {c \in CacheConfigs :
                                  c.section /\ c.type = "redis" /\ c.lib}} :
          /\ cache_enabled = made.cache_enabled
          /\ is_connected = made.is_connected
          /\ redis_client = made.redis_client
    /\ redis = <<>>
    /\ environ = [name \in EnvironNames |-> Unset]
    /\ last = NoCall
    /\ ops = 0
    /\ QueryIdle
    /\ threads = <<>> /\ sockets = <<>> /\ pipe = <<>>
    /\ \E site \in Sites :
          /\ pymysql_available = site.pymysql_available
          /\ sphinx_mode = site.sphinx_mode
          /\ index_name = site.index_name
          /\ index = site.index
    /\ LET probe == DetectIndexFields("None")
       IN  /\ connection = probe.connection
           /\ available_fields = probe.available_fields
           /\ content_in_index = probe.content_in_index
           /\ call = [NoSearch EXCEPT !.op = "__init__",
                                      !.connects = probe.connects,
                                      !.used = probe.used,
                                      !.statements = probe.statements,
                                      !.tier1 = probe.tier1,
                                      !.tier2 = probe.tier2]

\* (mutation) a search that had to open a connection probes the index anew
CallSearchPolish_Reprobes ==
    /\ ClientStep
    /\ \E input \in SearchInputs :
          \E out \in SearchPolish(input[1], input[2]) :
              /\ redis' = out.redis
              /\ connection' = out.connection
              /\ \E probe \in {DetectIndexFields(out.connection)} :
                    IF out.connects > 0
                    THEN /\ available_fields' = probe.available_fields
                         /\ content_in_index' = probe.content_in_index
                    ELSE UNCHANGED <<available_fields, content_in_index>>
              /\ call' = [NoSearch EXCEPT !.op = "search_polish",
                                          !.query = input[1],
                                          !.limit = input[2],
                                          !.ret = out.ret,
                                          !.calls = out.calls,
                                          !.connects = out.connects,
                                          !.used = out.used,
                                          !.statements = out.statements,
                                          !.cached = out.cached,
                                          !.raised = out.raised,
                                          !.tier1 = call.tier1,
                                          !.tier2 = call.tier2]
    /\ UNCHANGED <<cacheObject, redis_mode, environ, last>>
    /\ UNCHANGED <<index_name, pymysql_available, sphinx_mode, index>>

\* search_polish(query, limit) with one of the inputs; the call assigns
\* neither available_fields nor content_in_index
CallSearchPolish ==
    /\ ClientStep
    /\ \E input \in SearchInputs :
          \E out \in SearchPolish(input[1], input[2]) :
              /\ redis' = out.redis
              /\ connection' = out.connection
              /\ call' = [NoSearch EXCEPT !.op = "search_polish",
                                          !.query = input[1],
                                          !.limit = input[2],
                                          !.ret = out.ret,
                                          !.calls = out.calls,
                                          !.connects = out.connects,
                                          !.used = out.used,
                                          !.statements = out.statements,
                                          !.cached = out.cached,
                                          !.raised = out.raised,
                                          !.tier1 = call.tier1,
                                          !.tier2 = call.tier2]
    /\ UNCHANGED <<cacheObject, redis_mode, environ, last>>
    /\ UNCHANGED <<index_name, available_fields, content_in_index,
                   pymysql_available, sphinx_mode, index>>

\* _detect_index_fields run again on the same object
CallDetectIndexFields ==
    LET probe == DetectIndexFields(connection)
    IN  /\ ClientStep
        /\ connection' = probe.connection
        /\ available_fields' = probe.available_fields
        /\ content_in_index' = probe.content_in_index
        /\ call' = [NoSearch EXCEPT !.op = "_detect_index_fields",
                                    !.connects = probe.connects,
                                    !.used = probe.used,
                                    !.statements = probe.statements,
                                    !.tier1 = probe.tier1,
                                    !.tier2 = probe.tier2]
        /\ UNCHANGED <<cacheObject, redis, redis_mode, environ, last>>
        /\ UNCHANGED <<index_name, pymysql_available, sphinx_mode, index>>

\* close(): the handle is closed and forgotten
CallCloseConnection ==
    /\ connection # "None"
    /\ ClientStep
    /\ connection' = "None"
    /\ call' = [NoSearch EXCEPT !.op = "close", !.tier1 = call.tier1,
                                !.tier2 = call.tier2]
    /\ UNCHANGED <<cacheObject, redis, redis_mode, environ, last>>
    /\ UNCHANGED <<index_name, available_fields, content_in_index,
                   pymysql_available, sphinx_mode, index>>

\* searchd stops (an open handle goes stale) or starts again
EngineChange ==
    /\ ClientStep
    /\ sphinx_mode' = IF sphinx_mode = "up" THEN "down" ELSE "up"
    /\ connection' = IF connection = "open" THEN "stale" ELSE connection
    /\ call' = [NoSearch EXCEPT !.op = "engine", !.tier1 = call.tier1,
                                !.tier2 = call.tier2]
    /\ UNCHANGED <<cacheObject, redis, redis_mode, environ, last>>
    /\ UNCHANGED <<index_name, available_fields, content_in_index,
                   pymysql_available, index>>

\* the cache server stops answering, refuses writes, or recovers
CacheServerChange ==
    /\ ClientStep
    /\ \E mode \in {"up", "readonly", "down"} :
          redis_mode # mode /\ redis_mode' = mode
    /\ call' = [NoSearch EXCEPT !.op = "server", !.tier1 = call.tier1,
                                !.tier2 = call.tier2]
    /\ UNCHANGED <<cacheObject, redis, environ, last>>
    /\ UNCHANGED <<index_name, connection, available_fields,
                   content_in_index, pymysql_available, sphinx_mode, index>>

NextSearch ==
    \/ CallSearchPolish
    \/ CallDetectIndexFields
    \/ CallCloseConnection
    \/ EngineChange
    \/ CacheServerChange

SpecSearch == InitSearch /\ [][NextSearch]_vars


----------------------------------------------------------------------------
(* A client made after a restart: the cache server still holds what the    *)
(* client before it stored                                                  *)

\* the client before the restart had probed an index with all columns and
\* searched "kot" with limit 10: the lookup and the search counted a miss
\* each, the engine answered two rows and the list was stored for 30
\* minutes.  The new client is made for the same index name, whatever the
\* engine answers now
InitRestart ==
    /\ redis_mode = "up"
    /\ cache_enabled = TRUE /\ is_connected = TRUE /\ redis_client = TRUE
    /\ environ = [name \in EnvironNames |-> Unset]
    /\ last = NoCall
    /\ ops = 0
    /\ QueryIdle
    /\ threads = <<>> /\ sockets = <<>> /\ pipe = <<>>
    /\ pymysql_available = TRUE
    /\ sphinx_mode \in {"up", "down"}
    /\ index_name = <<"s", "p", "h", "i", "n", "x", "_", "m", "a", "i", "n">>
    /\ index \in Indexes
    /\ \E fields \in {MinimalFields \o <<ContentColumns[1], SubjectColumns[1]>>},
          processed \in {PreprocessPolishQuery(<<"k", "o", "t">>).combined} :
          \E safe_fields \in {SafeFields(fields, TRUE)} :
             \E results \in
                   {PyList([i \in 1..2 |->
                       SearchResult([c \in {Unquoted(safe_fields[j]) :
                                               j \in 1..Len(safe_fields)}
                                        |-> RowValue(c, i)], TRUE)])} :
                redis = RedisIncr(RedisIncr(
                            RedisSetex(<<>>,
                                SearchCacheKey(processed, SearchFilters(10)),
                                1800,
                                JsonDumps(SearchEntry(processed,
                                                      SearchFilters(10),
                                                      results))),
                            StatsKey("cache_misses")),
                            StatsKey("cache_misses"))
    /\ LET probe == DetectIndexFields("None")
       IN  /\ connection = probe.connection
           /\ available_fields = probe.available_fields
           /\ content_in_index = probe.content_in_index
           /\ call = [NoSearch EXCEPT !.op = "__init__",
                                      !.connects = probe.connects,
                                      !.used = probe.used,
                                      !.statements = probe.statements,
                                      !.tier1 = probe.tier1,
                                      !.tier2 = probe.tier2]

SpecRestart == InitRestart /\ [][NextSearch]_vars

----------------------------------------------------------------------------
(* handlers/sphinx_handler.py: SphinxSearchHandler, which opens a          *)
(* connection for each call and closes it when the call ends.  Its handle  *)
(* is connection, the connections it opened are in sockets                 *)

\* _get_connection: a handle that says it is open is handed out, otherwise
\* one is opened; a failure to connect is caught and answered with None,
\* and the attribute keeps what it held
HandlerGetConnection(conn) ==
    IF conn \in {"open", "stale"}
    THEN [ok |-> TRUE, connection |-> conn, connects |-> 0]
    ELSE IF sphinx_mode = "up"
         THEN [ok |-> TRUE, connection |-> "open", connects |-> 1]
         ELSE [ok |-> FALSE, connection |-> conn, connects |-> 1]

\* (mutation) the handle is forgotten only when close() succeeded
HandlerCloseConnection_UnlessError(conn, socks) ==
    [connection |-> IF conn \in {"open", "stale"} THEN "None" ELSE conn,
     sockets |-> [i \in DOMAIN socks |->
                     IF socks[i].held /\ conn \in {"open", "stale"}
                     THEN [state |-> "closed", held |-> FALSE]
                     ELSE socks[i]]]

\* _close_connection: if there is a handle, close() (an error of it is
\* logged) and, in the finally, self.connection = None.  close() leaves the
\* socket closed also when it raises
HandlerCloseConnection(conn, socks) ==
    [connection |-> "None",
     sockets |-> [i \in DOMAIN socks |->
                     IF socks[i].held /\ conn # "None"
                     THEN [state |-> "closed", held |-> FALSE]
                     ELSE socks[i]]]

\* the handler as __init__ leaves it (the driver is present, or __init__
\* raises): the index name is "forum_posts" or the one given, there is no
\* handle.  It has no cache and no snapshot
InitHandler ==
    /\ CacheIdle
    /\ QueryIdle
    /\ threads = <<>> /\ sockets = <<>> /\ pipe = <<>>
    /\ index_name \in
          {<<"f", "o", "r", "u", "m", "_", "p", "o", "s", "t", "s">>}
          \cup IndexNames
    /\ connection = "None"
    /\ available_fields = <<>> /\ content_in_index = FALSE
    /\ pymysql_available = TRUE
    /\ sphinx_mode \in {"up", "down"}
    /\ index = [describe |-> NoAnswer, sample |-> NoAnswer]
    /\ call = NoSearch

\* search(query, max_results): a blank query returns at once; otherwise
\* _get_connection, one execute, _format_results, and _close_connection in
\* the finally.  What the engine does with the statement is outcome
CallHandlerSearch ==
    \E query \in {<<>>, <<" ">>, <<"k", "o", "t">>, <<"o", "'", "k">>},
       max_results \in {10, 20}, outcome \in Outcomes :
        LET got == HandlerGetConnection(connection)
            opened == IF got.ok /\ got.connects = 1
                      THEN Append(sockets, [state |-> "open", held |-> TRUE])
                      ELSE sockets
            sql == [kind |-> "search", index |-> index_name,
                    match |-> query, limit |-> max_results]
            failed == got.connection = "stale" \/ outcome \in {"refused", "lost"}
            dropped == got.connection = "stale" \/ outcome = "lost"
            Url(i) == PyStr(<<"index.php?topic=", i, ".msg", i, "#msg", i>>)
            Formatted(rows) ==
                PyList([i \in 1..rows |->
                    PyDict(("id" :> PyStr(<<IF i = 1 THEN "1" ELSE "2">>))
                           @@ ("topic_id" :> PyInt(i))
                           @@ ("post_id" :> PyInt(i))
                           @@ ("url" :> Url(i)))])
            closed == HandlerCloseConnection(
                          IF ~got.ok THEN got.connection
                          ELSE IF dropped THEN "closed" ELSE got.connection,
                          opened)
        IN  /\ ops < MaxCalls /\ ops' = ops + 1
            /\ IF query = <<>> \/ IsBlank(query)
               THEN /\ call' = [NoSearch EXCEPT !.op = "handler_search",
                                                !.query = query,
                                                !.limit = max_results,
                                                !.ret = PyList(<<>>)]
                    /\ UNCHANGED <<connection, sockets>>
               ELSE /\ connection' = closed.connection
                    /\ sockets' = closed.sockets
                    /\ call' = [NoSearch EXCEPT
                          !.op = "handler_search",
                          !.query = query, !.limit = max_results,
                          !.connects = got.connects,
                          !.used = got.ok,
                          !.statements = IF got.ok THEN <<sql>> ELSE <<>>,
                          !.raised = IF ~got.ok THEN "none"
                                     ELSE IF dropped THEN "OperationalError"
                                     ELSE IF failed THEN "ProgrammingError"
                                     ELSE "none",
                          !.ret = IF ~got.ok \/ failed THEN PyList(<<>>)
                                  ELSE Formatted(IF outcome = "rows2"
                                                 THEN 2 ELSE 0)]
            /\ UNCHANGED <<cacheObject, redis, redis_mode, environ, last>>
            /\ UNCHANGED <<index_name, available_fields, content_in_index,
                           pymysql_available, sphinx_mode, index>>
            /\ UNCHANGED <<queryVars, threads, pipe>>

\* get_status(): _get_connection, SHOW TABLES LIKE the index name, and
\* _close_connection in the finally; rows2 stands for a row (the index is
\* there), rows0 for none
CallHandlerGetStatus ==
    \E outcome \in Outcomes :
        LET got == HandlerGetConnection(connection)
            opened == IF got.ok /\ got.connects = 1
                      THEN Append(sockets, [state |-> "open", held |-> TRUE])
                      ELSE sockets
            sql == [kind |-> "show_tables", like |-> index_name]
            failed == got.connection = "stale" \/ outcome \in {"refused", "lost"}
            dropped == got.connection = "stale" \/ outcome = "lost"
            closed == HandlerCloseConnection(
                          IF ~got.ok THEN got.connection
                          ELSE IF dropped THEN "closed" ELSE got.connection,
                          opened)
            status ==
                ("handler" :> PyStr(<<"s", "p", "h", "i", "n", "x">>))
                @@ ("index" :> PyStr(index_name))
                @@ ("pymysql_available" :> PyBool(pymysql_available))
        IN  /\ ops < MaxCalls /\ ops' = ops + 1
            /\ connection' = closed.connection
            /\ sockets' = closed.sockets
            /\ call' = [NoSearch EXCEPT
                  !.op = "handler_status",
                  !.connects = got.connects,
                  !.used = got.ok,
                  !.statements = IF got.ok THEN <<sql>> ELSE <<>>,
                  !.raised = IF ~got.ok THEN "none"
                             ELSE IF dropped THEN "OperationalError"
                             ELSE IF failed THEN "ProgrammingError"
                             ELSE "none",
                  !.ret = PyDict(
                      IF ~got.ok
                      THEN ("connection" :> PyStr(<<"f", "a", "i", "l", "e", "d">>))
                           @@ ("index_exists" :> PyBool(FALSE)) @@ status
                      ELSE IF failed
                           THEN ("connection" :> PyStr(<<"e", "r", "r", "o", "r">>))
                                @@ ("error" :> PyStr(<<outcome>>)) @@ status
                      ELSE ("connection" :>
                                PyStr(<<"a", "c", "t", "i", "v", "e">>))
                           @@ ("index_exists" :> PyBool(outcome = "rows2"))
                           @@ status)]
            /\ UNCHANGED <<cacheObject, redis, redis_mode, environ, last>>
            /\ UNCHANGED <<index_name, available_fields, content_in_index,
                           pymysql_available, sphinx_mode, index>>
            /\ UNCHANGED <<queryVars, threads, pipe>>

NextHandler ==
    \/ CallHandlerSearch
    \/ CallHandlerGetStatus
    \/ EngineChange

SpecHandler == InitHandler /\ [][NextHandler]_vars

----------------------------------------------------------------------------
(* Concurrent callers: threads that ask one client for its connection, one *)
(* caller of update_search_stats and one of get_search_stats on one cache  *)

\* threads that search on the one client
MaxThreads == 2

\* the client was made while searchd was down (no handle) or up (the probe
\* left an open handle); the cache is available and its server holds the
\* statistics of no search or of 999 searches, whose samples are numbered
\* in the order of the updates
InitThreads ==
    /\ cache_enabled = TRUE /\ is_connected = TRUE /\ redis_client = TRUE
    /\ redis_mode = "up"
    /\ \E n \in {0, TrimEnd} :
          redis =
            IF n = 0 THEN <<>>
            ELSE LET samples == [i \in 1..n |-> n + 1 - i]
                     Stat(type, value, ttl) == <<type, value, ttl, NoSettings>>
                 IN  (StatsKey("search_count") :> Stat("int", n, 0))
                     @@ (StatsKey("popular_queries") :>
                            Stat("zset", (<<"k", "o", "t">> :> n), 0))
                     @@ (StatsKey("response_times") :>
                            Stat("list", samples, 0))
                     @@ (StatsKey("result_counts") :>
                            Stat("list", samples, 0))
                     @@ (StatsKey("daily:" \o Today \o ":searches") :>
                            Stat("int", n, DailyTtl))
    /\ environ = [name \in EnvironNames |-> Unset]
    /\ last = NoCall
    /\ ops = 0
    /\ QueryIdle
    /\ pymysql_available = TRUE /\ sphinx_mode = "up"
    /\ index_name = <<"s", "p", "h", "i", "n", "x", "_", "m", "a", "i", "n">>
    /\ index = [describe |-> NoAnswer, sample |-> NoAnswer]
    /\ available_fields = MinimalFields /\ content_in_index = FALSE
    /\ call = NoSearch
    /\ connection \in {"None", "open"}
    /\ sockets = IF connection = "None" THEN <<>>
                 ELSE <<[state |-> "open", held |-> TRUE]>>
    /\ threads = [t \in 1..MaxThreads |-> "idle"]
    /\ pipe = <<>>

\* a thread enters _get_connection and evaluates "self.connection is None
\* or not self.connection.open"
GetConnectionCheck ==
    \E t \in DOMAIN threads :
        /\ threads[t] = "idle"
        /\ ops < MaxOps /\ ops' = ops + 1
        /\ threads' = [threads EXCEPT ![t] =
                          IF connection \in {"None", "closed"}
                          THEN "connect" ELSE "return"]
        /\ call' = [NoSearch EXCEPT !.op = "_get_connection"]
        /\ UNCHANGED <<cacheObject, redis, redis_mode, environ, last>>
        /\ UNCHANGED <<queryVars, sockets, pipe>>
        /\ UNCHANGED <<index_name, connection, available_fields,
                       content_in_index, pymysql_available, sphinx_mode,
                       index>>

\* a thread that found no open handle calls pymysql.connect and stores the
\* new connection in self.connection; the one stored before is let go
GetConnectionConnect ==
    \E t \in DOMAIN threads :
        /\ threads[t] = "connect"
        /\ threads' = [threads EXCEPT ![t] = "return"]
        /\ sockets' = Append([i \in DOMAIN sockets |->
                                 [sockets[i] EXCEPT !.held = FALSE]],
                             [state |-> "open", held |-> TRUE])
        /\ connection' = "open"
        /\ call' = [NoSearch EXCEPT !.op = "connect", !.connects = 1]
        /\ UNCHANGED <<cacheVars, queryVars, pipe>>
        /\ UNCHANGED <<index_name, available_fields, content_in_index,
                       pymysql_available, sphinx_mode, index>>

\* a thread returns self.connection and runs its statement on it: the
\* engine answers, or the connection is lost and the driver closes it
GetConnectionReturn ==
    \E t \in DOMAIN threads, outcome \in {"answered", "lost"} :
        /\ threads[t] = "return"
        /\ threads' = [threads EXCEPT ![t] = "idle"]
        /\ sockets' = [i \in DOMAIN sockets |->
                          IF sockets[i].held /\ outcome = "lost"
                          THEN [sockets[i] EXCEPT !.state = "closed"]
                          ELSE sockets[i]]
        /\ connection' = IF outcome = "lost" \/ connection = "closed"
                         THEN "closed" ELSE "open"
        /\ call' = [NoSearch EXCEPT
                       !.op = "execute",
                       !.used = TRUE,
                       !.raised = IF connection' = "closed"
                                  THEN "OperationalError" ELSE "none"]
        /\ UNCHANGED <<cacheVars, queryVars, pipe>>
        /\ UNCHANGED <<index_name, available_fields, content_in_index,
                       pymysql_available, sphinx_mode, index>>

\* update_search_stats up to pipe.execute(): the commands are queued in the
\* pipeline of the caller; the samples carry the number of the update
QueueUpdateSearchStats ==
    /\ pipe = <<>>
    /\ ops < MaxOps /\ ops' = ops + 1
    /\ \E query \in CacheQueries,
          n \in {CounterValue(redis, StatsKey("search_count")) + 1} :
          /\ pipe' = IF IsAvailable THEN StatsCommands(query, n, n) ELSE <<>>
          /\ last' = [NoCall EXCEPT
                         !.op = "update_search_stats", !.query = query,
                         !.ret = IF IsAvailable THEN PyNone
                                 ELSE PyBool(FALSE)]
    /\ UNCHANGED <<cacheObject, redis, redis_mode, environ>>
    /\ UNCHANGED <<queryVars, clientVars, threads, sockets>>

\* pipe.execute(): the server runs the queued commands, or the call raises
\* and update_search_stats returns False
PipeExecute ==
    /\ pipe # <<>>
    /\ IF Raises(TRUE)
       THEN /\ pipe' = <<>>
            /\ redis' = redis
            /\ last' = [NoCall EXCEPT !.op = "update_search_stats",
                                      !.ret = PyBool(FALSE),
                                      !.calls = Attempt]
       ELSE \E k \in {Chunk(pipe)} :
               /\ redis' = RunCommands(redis, SubSeq(pipe, 1, k))
               /\ pipe' = SubSeq(pipe, k + 1, Len(pipe))
               /\ last' = [NoCall EXCEPT
                              !.op = "update_search_stats",
                              !.ret = IF k = Len(pipe) THEN PyBool(TRUE)
                                      ELSE PyNone,
                              !.calls = 1]
    /\ UNCHANGED <<cacheObject, redis_mode, environ, ops>>
    /\ UNCHANGED <<queryVars, clientVars, threads, sockets>>

\* get_search_stats: one pipeline of four reads, then the two counters of
\* the hit rate.  results is what pipe.execute() returned; an average is
\* kept as <<sum, count>>, the hit rate as <<100 * hits, total>>; the sum of
\* a list is taken by halves, which adds the same numbers
CallGetSearchStats ==
    LET Read(name, empty) ==
            IF StatsKey(name) \in DOMAIN redis
            THEN redis[StatsKey(name)][2] ELSE empty
        First100(list) ==
            SubSeq(list, 1, IF Len(list) > 100 THEN 100 ELSE Len(list))
        RECURSIVE Sum(_)
        Sum(list) ==
            IF Len(list) = 0 THEN 0
            ELSE IF Len(list) = 1 THEN list[1]
            ELSE LET half == Len(list) \div 2
                 IN  Sum(SubSeq(list, 1, half))
                     + Sum(SubSeq(list, half + 1, Len(list)))
        Average(list) == IF list = <<>> THEN PyInt(0)
                         ELSE <<"float", <<Sum(list), Len(list)>>>>
        results == <<Read("search_count", 0), Read("popular_queries", <<>>),
                     First100(Read("response_times", <<>>)),
                     First100(Read("result_counts", <<>>))>>
        Stats(seen) ==
            PyDict(("total_searches" :> PyInt(seen[1]))
                   @@ ("popular_queries" :> PyDict(seen[2]))
                   @@ ("avg_response_time" :> Average(seen[3]))
                   @@ ("avg_result_count" :> Average(seen[4]))
                   @@ ("cache_hit_rate" :>
                          IF Hits + Misses > 0
                          THEN <<"float", <<100 * Hits, Hits + Misses>>>>
                          ELSE PyInt(0)))
    IN  /\ Step
        /\ last' = IF ~IsAvailable
                   THEN [NoCall EXCEPT !.op = "get_search_stats",
                                       !.ret = PyDict(<<>>)]
                   ELSE IF Raises(FALSE)
                        THEN [NoCall EXCEPT !.op = "get_search_stats",
                                            !.ret = PyDict(<<>>),
                                            !.calls = Attempt]
                   ELSE [NoCall EXCEPT !.op = "get_search_stats",
                                       !.results = results,
                                       !.ret = Stats(results),
                                       !.calls = 3]
        /\ UNCHANGED <<cacheObject, redis, redis_mode, environ>>

NextThreads ==
    \/ GetConnectionCheck
    \/ GetConnectionConnect
    \/ GetConnectionReturn
    \/ QueueUpdateSearchStats
    \/ PipeExecute
    \/ CallGetSearchStats
    \/ ServerChange

SpecThreads == InitThreads /\ [][NextThreads]_vars

\* whether stopword removal leaves at least one word of the raw query
WordsRemain == FilterStopwords(Split(Lower(raw))) # <<>>

\* C8: a non-empty raw query never yields an empty search term; when stopword
\* removal leaves no word the raw query itself is returned.
C8_NeverEmpty ==
    (sq.done /\ raw # <<>>) =>
        /\ sq.combined # <<>>
        /\ (~WordsRemain => sq.combined = raw)

\* C8 witness: a query made of stopwords only was processed and came back
\* unchanged.
C8_Witness ==
    /\ sq.done
    /\ raw = <<"i", " ", "z_dot", "e">>
    /\ sq.combined = raw

----------------------------------------------------------------------------
(* Claims about the cache *)

\* C1: a get_cached_search_results(q, f) that directly follows a successful
\* cache_search_results(q, f, R, ttl) returns an entry whose results are R,
\* adds exactly one hit and leaves the misses alone.
C1_RoundTrip ==
    [][(/\ last.op = "cache_search_results"
        /\ last.ret = PyBool(TRUE)
        /\ last'.op = "get_cached_search_results"
        /\ last'.query = last.query
        /\ last'.filters = last.filters)
       => (/\ last'.ret[1] = "dict"
           /\ last'.ret[2]["results"] = last.results
           /\ Hits' = Hits + 1
           /\ Misses' = Misses)]_vars

\* C1 witness: the second call of a run was a lookup that hit and returned
\* the two stored rows, so the first call was the store.
C1_Witness ==
    /\ ops = 2
    /\ last.op = "get_cached_search_results"
    /\ last.ret[1] = "dict"
    /\ last.ret[2]["results"] = PyList(<<ResultRow(1), ResultRow(2)>>)
    /\ Hits = 1 /\ Misses = 0

\* the settings a set of environment variables amounts to
EffectiveSettings(env) ==
    [name \in EnvironNames |->
        IF env[name] # Unset THEN env[name]
        ELSE IF name = "SPHINX_AI_MAX_RESULTS" THEN PyStr(<<"5", "0">>)
        ELSE PyStr(<<>>)]

\* C2: a lookup never returns an entry written under settings (model path,
\* model type, result ceiling) other than the ones in force at the lookup:
\* after a change of any of them the old entry is not found.
C2_VersionMiss ==
    (last.op = "get_cached_search_results" /\ last.ret # PyNone)
        => EffectiveSettings(last.under) = EffectiveSettings(environ)

\* C2 witness: a lookup asked the server and came back empty while the entry
\* for the same query and filters, written under other settings, is still
\* stored.
C2_Witness ==
    /\ last.op = "get_cached_search_results"
    /\ last.ret = PyNone
    /\ last.calls > 0
    /\ \E key \in DOMAIN redis :
          /\ key[2] = "search:"
          /\ JsonLoads(redis[key][2]) # JSONDecodeError
          /\ JsonLoads(redis[key][2])[2]["query"] = PyStr(last.query)
          /\ JsonLoads(redis[key][2])[2]["filters"] = last.filters
          /\ EffectiveSettings(redis[key][4]) # EffectiveSettings(environ)

\* C3: while the cache is not available, a lookup returns None, a store and
\* a statistics update return False, clear_cache returns 0, and none of them
\* sends anything to the server.
C3_Unavailable ==
    (/\ last.op \in {"get_cached_search_results", "cache_search_results",
                     "update_search_stats", "clear_cache"}
     /\ ~(cache_enabled /\ is_connected /\ redis_client))
        => /\ last.calls = 0
           /\ last.ret = CASE last.op = "get_cached_search_results" -> PyNone
                           [] last.op = "clear_cache" -> PyInt(0)
                           [] OTHER -> PyBool(FALSE)

\* C3 witness: an entry was stored, the cache was closed, and a lookup of
\* that entry then returned None without a request.
C3_Witness ==
    /\ last.op = "get_cached_search_results"
    /\ cache_enabled /\ redis_client /\ ~is_connected
    /\ redis_mode = "up"
    /\ SearchCacheKey(last.query, last.filters) \in DOMAIN redis
    /\ last.ret = PyNone /\ last.calls = 0

----------------------------------------------------------------------------
(* The search client: what a search sends and returns *)

\* C4: a search whose query text holds a dangerous substring, in any letter
\* case, executes no statement against the engine and returns the empty list
C4_DangerousRejected ==
    LET dangerous ==
            {<<";">>, <<"-", "-">>, <<"/", "*">>, <<"*", "/">>,
             <<"u", "n", "i", "o", "n">>, <<"s", "e", "l", "e", "c", "t">>,
             <<"i", "n", "s", "e", "r", "t">>,
             <<"u", "p", "d", "a", "t", "e">>,
             <<"d", "e", "l", "e", "t", "e">>, <<"d", "r", "o", "p">>,
             <<"c", "r", "e", "a", "t", "e">>, <<"a", "l", "t", "e", "r">>,
             <<"e", "x", "e", "c">>}
    IN  (/\ call.op = "search_polish"
         /\ \E pattern \in dangerous : Contains(Lower(call.query), pattern))
        => (call.statements = <<>> /\ call.ret = PyList(<<>>))

\* a dangerous query in capitals, behind a stopword, reached the validation
\* on an open connection and was refused
C4_Witness ==
    /\ call.op = "search_polish"
    /\ call.query = <<"i", " ", "D", "R", "O", "P">>
    /\ call.used /\ connection = "open"
    /\ call.statements = <<>> /\ call.ret = PyList(<<>>)

\* C5 (as claimed): a search whose query is blank, longer than 1000
\* characters or dangerous opens and uses no connection to the engine and
\* sends no request to the cache backend
C5_Original ==
    LET dangerous ==
            {<<";">>, <<"-", "-">>, <<"/", "*">>, <<"*", "/">>,
             <<"u", "n", "i", "o", "n">>, <<"s", "e", "l", "e", "c", "t">>,
             <<"i", "n", "s", "e", "r", "t">>,
             <<"u", "p", "d", "a", "t", "e">>,
             <<"d", "e", "l", "e", "t", "e">>, <<"d", "r", "o", "p">>,
             <<"c", "r", "e", "a", "t", "e">>, <<"a", "l", "t", "e", "r">>,
             <<"e", "x", "e", "c">>}
    IN  (/\ call.op = "search_polish"
         /\ \/ IsBlank(call.query)
            \/ Len(call.query) > 1000
            \/ \E pattern \in dangerous :
                  Contains(Lower(call.query), pattern))
        => (/\ call.connects = 0 /\ ~call.used /\ call.statements = <<>>
            /\ call.calls = 0)

C7_Original ==
    (call.op = "search_polish" /\ call.statements # <<>>) =>
        /\ \E f \in Range(call.statements[1].fields) :
              Unquoted(f) = <<"i", "d">>
        /\ \E f \in Range(call.statements[1].fields) :
              Contains(Lower(f), <<"w", "e", "i", "g", "h", "t">>)

\* C10: when the schema-description statement and the sample statement both
\* fail, the probe leaves exactly id, topic_id, post_id, board_id, with no
\* content and no subject column
C10_BothTiersFail ==
    (/\ call.op \in {"__init__", "_detect_index_fields"}
     /\ call.tier1 = "failed" /\ call.tier2 = "failed")
    => /\ Len(available_fields) = 4
       /\ Range(available_fields) =
            {<<"i", "d">>, <<"t", "o", "p", "i", "c", "_", "i", "d">>,
             <<"p", "o", "s", "t", "_", "i", "d">>,
             <<"b", "o", "a", "r", "d", "_", "i", "d">>}
       /\ content_in_index = FALSE
       /\ \A f \in Range(SubjectColumns) : ~In(f, available_fields)

\* both statements were sent on an open connection and both were refused
C10_Witness ==
    /\ call.op \in {"__init__", "_detect_index_fields"}
    /\ call.tier1 = "failed" /\ call.tier2 = "failed"
    /\ Len(call.statements) = 2
    /\ call.statements[1].kind = "describe"
    /\ call.statements[2].kind = "sample"
    /\ connection = "open"

\* C11: a probe that receives the same answers from the engine as the probe
\* before it (the same outcome of the description statement and of the
\* sample statement, on an index that has not changed) leaves the same
\* available fields and the same content availability, whatever was called
\* in between
C11_ProbeIdempotent ==
    [][(/\ call'.op = "_detect_index_fields"
        /\ call'.tier1 = call.tier1 /\ call'.tier2 = call.tier2
        /\ index' = index /\ index_name' = index_name)
       => (/\ available_fields' = available_fields
           /\ content_in_index' = content_in_index)]_vars

\* the first call after construction was a probe on the handle the
\* constructor opened; the description was answered both times
C11_Witness ==
    /\ call.op = "_detect_index_fields" /\ ops = 1
    /\ call.connects = 0 /\ call.tier1 = "answered"
    /\ connection = "open"
    /\ Len(available_fields) = 6 /\ content_in_index

\* C12: every result a search maps from a row of the engine carries
\* content_in_index as the client holds it and needs_content_fetch as its
\* negation, and carries content (subject) only when content_in_index is
\* true and the statement asked for a content (subject) column; when the
\* index has only id, topic_id, post_id and board_id, every result says
\* content_in_index false, needs_content_fetch true and carries no content
C12_ResultFlags ==
    (call.op = "search_polish" /\ ~call.cached /\ call.statements # <<>>) =>
        \A i \in 1..Len(call.ret[2]) :
            LET result == call.ret[2][i][2]
                asked == {Unquoted(f) : f \in Range(call.statements[1].fields)}
            IN  /\ result["content_in_index"] = PyBool(content_in_index)
                /\ result["needs_content_fetch"] = PyBool(~content_in_index)
                /\ "content" \in DOMAIN result =>
                      /\ content_in_index
                      /\ asked \cap {<<"c", "o", "n", "t", "e", "n", "t">>,
                                     <<"b", "o", "d", "y">>,
                                     <<"m", "e", "s", "s", "a", "g", "e">>} # {}
                /\ "subject" \in DOMAIN result =>
                      /\ content_in_index
                      /\ asked \cap {<<"s", "u", "b", "j", "e", "c", "t">>,
                                     <<"t", "i", "t", "l", "e">>,
                                     <<"t", "o", "p", "i", "c", "_",
                                       "t", "i", "t", "l", "e">>} # {}
                /\ Range(available_fields) =
                        {<<"i", "d">>, <<"t", "o", "p", "i", "c", "_", "i", "d">>,
                         <<"p", "o", "s", "t", "_", "i", "d">>,
                         <<"b", "o", "a", "r", "d", "_", "i", "d">>} =>
                      /\ result["content_in_index"] = PyBool(FALSE)
                      /\ result["needs_content_fetch"] = PyBool(TRUE)
                      /\ "content" \notin DOMAIN result

\* the engine answered with rows for an index that has the four identifier
\* columns and nothing else
C12_Witness ==
    /\ call.op = "search_polish" /\ ~call.cached
    /\ Len(call.ret[2]) = 2
    /\ Range(available_fields) =
            {<<"i", "d">>, <<"t", "o", "p", "i", "c", "_", "i", "d">>,
             <<"p", "o", "s", "t", "_", "i", "d">>,
             <<"b", "o", "a", "r", "d", "_", "i", "d">>}
    /\ call.ret[2][1][2]["needs_content_fetch"] = PyBool(TRUE)
    /\ "content" \notin DOMAIN call.ret[2][1][2]

\* C13 (as claimed): a search returns a list, and the empty list whenever
\* the call met a failure: no connection to the engine, a query that fails
\* validation, a statement the engine refused or lost, or a command the
\* cache backend failed
C13_Original ==
    call.op = "search_polish" =>
        /\ call.ret[1] = "list"
        /\ (\/ ~call.cached /\ ~call.used
            \/ call.raised # "none"
            \/ IsAvailable /\ redis_mode # "up")
           => call.ret = PyList(<<>>)

\* C13 (amended): a search returns a list, and the empty list whenever it
\* had no connection to the engine, its query failed validation or the
\* engine refused or lost the statement; a command the cache backend fails
\* does not end the call, which returns what the cache or the engine gave
C13_FailuresEmpty ==
    call.op = "search_polish" =>
        /\ call.ret[1] = "list"
        /\ (\/ ~call.cached /\ ~call.used
            \/ call.raised # "none")
           => call.ret = PyList(<<>>)
        /\ (/\ IsAvailable /\ redis_mode = "down"
            /\ call.used /\ call.raised = "none")
           => (~call.cached /\ call.statements # <<>>)

\* the cache server was down and the engine dropped the connection while it
\* ran the statement: the call returned the empty list
C13_Witness ==
    /\ call.op = "search_polish"
    /\ IsAvailable /\ redis_mode = "down"
    /\ call.raised = "OperationalError" /\ call.statements # <<>>
    /\ connection = "closed"
    /\ call.ret = PyList(<<>>)

----------------------------------------------------------------------------
(* The cache: lookups, stores and their failures *)

\* C14 (as claimed): a lookup on an available cache whose server answers
\* returns None and adds one miss when the key holds nothing, returns the
\* decoded entry and adds one hit when the key holds a decodable payload,
\* and returns None, adds one miss and no hit when the payload cannot be
\* decoded
C14_Original ==
    [][(/\ last'.op = "get_cached_search_results"
        /\ IsAvailable /\ redis_mode = "up")
       => LET key == SearchCacheKey(last'.query, last'.filters)
              IsMiss == /\ last'.ret = PyNone
                        /\ Misses' = Misses + 1 /\ Hits' = Hits
          IN  IF key \notin DOMAIN redis THEN IsMiss
              ELSE IF JsonLoads(redis[key][2]) = JSONDecodeError THEN IsMiss
              ELSE /\ last'.ret = JsonLoads(redis[key][2])
                   /\ Hits' = Hits + 1 /\ Misses' = Misses]_vars

\* C15: a cache_search_results whose write the server refuses or never
\* receives returns False and leaves the enabled flag, the connected flag
\* and the client handle as they were, so the cache stays available; and
\* every cache_search_results on an available cache whose server accepts
\* writes, also one that follows such a failure, returns True and leaves
\* the entry stored
C15_StoreFailure ==
    [][(last'.op = "cache_search_results" /\ IsAvailable
        /\ Serializable(SearchEntry(last'.query, last'.filters,
                                    last'.results)))
       => IF redis_mode # "up"
          THEN /\ last'.ret = PyBool(FALSE)
               /\ cache_enabled' = cache_enabled
               /\ is_connected' = is_connected
               /\ redis_client' = redis_client
               /\ redis' = redis
          ELSE /\ last'.ret = PyBool(TRUE)
               /\ SearchCacheKey(last'.query, last'.filters)
                     \in DOMAIN redis']_vars

\* a store of two rows reached a server that refuses writes: it returned
\* False after one request and the cache is still available
C15_Witness ==
    /\ last.op = "cache_search_results"
    /\ last.results = PyList(<<ResultRow(1), ResultRow(2)>>)
    /\ redis_mode = "readonly"
    /\ last.ret = PyBool(FALSE) /\ last.calls = 1
    /\ cache_enabled /\ is_connected /\ redis_client

\* C16 (as claimed): every key the cache module has written to the server,
\* for search, embedding and model entries, for statistics and for the
\* results of functions wrapped by cached_search, starts with the
\* configured namespace followed by one of the category tags.  (The rest of
\* an entry key is the digest of its payload by construction of
\* _get_cache_key.)
C16_Original ==
    \A key \in DOMAIN redis :
        /\ key[1] = ConfigPrefix
        /\ key[2] \in {"search:", "model:", "config:", "stats:",
                       "suggestions:", "embeddings:"}

----------------------------------------------------------------------------
(* The search client: identifiers and statement text *)

\* C18 (as claimed): every statement sent to the engine, by a probe or by a
\* search, names an index whose name is one of the allowed names or starts
\* with the permitted prefix, and names the index and every field inside
\* backticks, each field being one of the allowed fields
C18_Original ==
    \A i \in 1..Len(call.statements) :
        LET statement == call.statements[i]
            Quoted(identifier) ==
                /\ Len(identifier) >= 2
                /\ identifier[1] = "backtick"
                /\ identifier[Len(identifier)] = "backtick"
            name == Unquoted(statement.index)
        IN  /\ Quoted(statement.index)
            /\ \/ name \in {<<"s", "p", "h", "i", "n", "x", "_",
                               "m", "a", "i", "n">>,
                             <<"s", "p", "h", "i", "n", "x", "_",
                               "d", "e", "l", "t", "a">>,
                             <<"f", "o", "r", "u", "m", "_",
                               "p", "o", "s", "t", "s">>,
                             <<"s", "m", "f", "_", "p", "o", "s", "t", "s">>,
                             <<"m", "a", "i", "n">>,
                             <<"d", "e", "l", "t", "a">>}
               \/ /\ Len(name) >= 7
                  /\ SubSeq(name, 1, 7) = <<"s", "p", "h", "i", "n", "x", "_">>
            /\ statement.kind = "search" =>
                  \A f \in Range(statement.fields) :
                      Quoted(f) /\ Unquoted(f) \in allowed_fields

\* C19: two searches in a row on the same index name and schema send the
\* same statement text (fields, index, match clause, order, limit clause),
\* whatever their queries and limits; the text holds placeholders and the
\* processed query and the limit travel as the values bound to them
C19_TextIndependent ==
    [][(/\ call'.op = "search_polish" /\ call'.statements # <<>>)
       => LET Text(statement) ==
                  <<statement.kind, statement.fields, statement.index,
                    statement.where, statement.order, statement.count>>
              sent == call'.statements[1]
          IN  /\ (call.op = "search_polish" /\ call.statements # <<>>)
                    => Text(sent) = Text(call.statements[1])
              /\ sent.where = <<"M", "A", "T", "C", "H", "(", "?", ")">>
              /\ sent.count = <<"?">>
              /\ sent.limit = call'.limit
              /\ \E processed \in
                        {PreprocessPolishQuery(call'.query).combined} :
                    sent.match =
                        ReplaceChar(ReplaceChar(processed, "'",
                                                <<"\\", "'">>),
                                    "\"", <<"\\", "\"">>)]_vars

\* a search for "kot" with limit 10 and then one for a query with a quote
\* and limit 20 both sent a statement
C19_Witness ==
    /\ call.op = "search_polish" /\ ops = 2
    /\ call.query = <<"o", "'", "k">> /\ call.limit = 20
    /\ call.statements # <<>>
    /\ call.statements[1].match = <<"o", "\\", "'", "k">>
    /\ call.statements[1].limit = 20
    /\ \E key \in DOMAIN redis :
          /\ key[2] = "search:"
          /\ JsonLoads(redis[key][2])[2]["query"] = PyStr(<<"k", "o", "t">>)
          /\ JsonLoads(redis[key][2])[2]["filters"][2]["limit"] = PyInt(10)

----------------------------------------------------------------------------
(* The wrapper of cached_search *)

----------------------------------------------------------------------------
(* The probe's tiers, the connection and the cache in a search *)

\* C21 as stated: after a probe, at construction or later, a schema is in
\* place; the sample statement was sent only if the description statement
\* raised; and the minimal field set is in use only if the sample statement
\* raised or returned no row.
C21_Original ==
    call.op \in {"__init__", "_detect_index_fields"}
    => /\ available_fields # <<>>
       /\ (\E i \in 1..Len(call.statements) :
              call.statements[i].kind = "sample") => call.tier1 = "failed"
       /\ (call.tier1 # "answered" /\ call.tier2 # "answered")
             => call.tier2 \in {"failed", "empty"}

\* C21, amended: after a probe a schema is in place and content_in_index
\* agrees with it; the description statement goes first, the sample statement
\* is sent exactly when the description raised; the minimal field set is in
\* use exactly when the sample raised or returned no row, or when no
\* statement could be sent at all, which happens when there is no connection
\* or the index name is refused by its validation.
C21_TiersInOrder ==
    call.op \in {"__init__", "_detect_index_fields"}
    => LET sent == [i \in 1..Len(call.statements) |->
                       call.statements[i].kind]
           fallback == call.tier1 # "answered" /\ call.tier2 # "answered"
       IN  /\ available_fields # <<>>
           /\ content_in_index = ContentInIndex(available_fields)
           /\ sent \in {<<>>, <<"describe">>, <<"describe", "sample">>}
           /\ (sent = <<"describe">>) <=> (call.tier1 = "answered")
           /\ (sent = <<"describe", "sample">>) <=> (call.tier1 = "failed")
           /\ (sent = <<>>) <=> (\/ connection \in {"None", "closed"}
                                    /\ call.tier1 = "skipped"
                                 \/ ~ValidateIndexName(index_name))
           /\ fallback <=> (call.tier2 \in {"failed", "empty"} \/ sent = <<>>)
           /\ fallback => (/\ available_fields = MinimalFields
                           /\ ~content_in_index)
           /\ call.tier1 = "answered" => available_fields = index.describe
           /\ call.tier2 = "answered" => available_fields = index.sample

\* a later probe on an engine that refuses the description and answers the
\* sample statement with no row: both statements were sent, the handle is
\* open and the minimal field set is in use
C21_Witness ==
    /\ call.op = "_detect_index_fields"
    /\ call.tier1 = "failed" /\ call.tier2 = "empty"
    /\ index.sample = EmptyIndex
    /\ Len(call.statements) = 2
    /\ connection = "open"
    /\ available_fields = MinimalFields

\* C22 as stated: a search whose statement failed because the connection was
\* closed or broken reconnected and sent the statement a second time, and no
\* search sends a statement more than twice.
C22_Original ==
    call.op = "search_polish"
    => /\ Len(call.statements) <= 2
       /\ call.raised = "OperationalError"
             => /\ call.connects = 1
                /\ Len(call.statements) = 2
                /\ call.statements[2] = call.statements[1]

\* C24: a search or a probe opens a connection only when the client holds no
\* handle or a closed one, and at most one; on a handle that is open no
\* connection is opened and the handle stays the one held, unless the
\* statement finds it broken.
C24_ConnectionReuse ==
    [][call'.op \in {"search_polish", "_detect_index_fields"}
       => /\ call'.connects \in {0, 1}
          /\ call'.connects = 1 => connection \in {"None", "closed"}
          /\ connection \in {"open", "stale"}
                => /\ call'.connects = 0
                   /\ connection' \in {connection, "closed"}
          /\ (connection = "open" /\ call'.raised # "OperationalError")
                => connection' = "open"]_vars

\* two searches in a row on the handle the constructor opened: the first one
\* stored its rows for "kot", the second one, for another query, sent its
\* statement and got rows without a connection being opened
C24_Witness ==
    /\ call.op = "search_polish" /\ ops = 2
    /\ call.query = <<"z_dot", "o_ac", "l_st", "w">>
    /\ call.connects = 0 /\ connection = "open"
    /\ call.statements # <<>> /\ call.raised = "none"
    /\ call.ret # PyList(<<>>)
    /\ \E key \in DOMAIN redis :
          /\ key[2] = "search:"
          /\ JsonLoads(redis[key][2])[2]["query"] = PyStr(<<"k", "o", "t">>)

\* C25 as stated: a search whose statement failed on the wire, for whatever
\* reason, leaves the connection closed.
C25_Original ==
    (/\ call.op = "search_polish"
     /\ call.statements # <<>> /\ call.raised # "none")
    => connection = "closed"

\* C25, amended: a search whose statement found the connection lost leaves
\* the handle closed; a search whose statement the engine refused, or whose
\* query was refused before any statement, leaves the handle it used as it
\* was; and a search that reaches the engine while the handle is closed
\* opens a connection first.
C25_FailedCallState ==
    [][call'.op = "search_polish"
       => /\ call'.raised = "OperationalError" => connection' = "closed"
          /\ call'.raised = "ProgrammingError" => connection' = "open"
          /\ (call'.raised = "ValueError" /\ call'.connects = 0)
                => connection' = connection
          /\ (connection = "closed" /\ ~call'.cached /\ pymysql_available)
                => /\ call'.connects = 1
                   /\ call'.statements # <<>>
                         => connection' \in {"open", "closed"}]_vars

\* two searches missed the cache; the first lost its connection, so the
\* second opened one, sent its statement on it and got an answer
C25_Witness ==
    /\ call.op = "search_polish" /\ ops = 2
    /\ Misses = 4
    /\ call.connects = 1 /\ call.statements # <<>>
    /\ call.raised = "none" /\ connection = "open"

\* C26: a search the cache answers returns the result list of the entry
\* stored for its processed query, its limit and the index name, and during
\* the call no connection is opened, no statement is sent and the handle is
\* left as it was.
C26_HitSkipsEngine ==
    [][(call'.op = "search_polish" /\ call'.cached)
       => /\ call'.connects = 0
          /\ call'.statements = <<>>
          /\ ~call'.used
          /\ connection' = connection
          /\ \E key \in {SearchCacheKey(
                             PreprocessPolishQuery(call'.query).combined,
                             SearchFilters(call'.limit))} :
                /\ key \in DOMAIN redis
                /\ call'.ret = JsonLoads(redis[key][2])[2]["results"]]_vars

\* the second search for "kot" with limit 10 was answered by the cache with
\* the two rows the first one stored
C26_Witness ==
    /\ call.op = "search_polish" /\ ops = 2
    /\ call.query = <<"k", "o", "t">> /\ call.limit = 10
    /\ call.cached /\ call.statements = <<>> /\ call.connects = 0
    /\ Len(call.ret[2]) = 2
    /\ Hits = 2 /\ Misses = 2
    /\ connection = "open"

\* C27 as stated: after a search that missed the cache and whose statement
\* the engine answered, with the cache available and its server up, the
\* same search made again at once is answered by the cache, sends no
\* statement and returns the same list, whatever the engine had answered.
C27_Original ==
    [][(/\ call.op = "search_polish"
        /\ ~call.cached /\ call.statements # <<>> /\ call.raised = "none"
        /\ IsAvailable /\ redis_mode = "up" /\ redis_mode' = "up"
        /\ call'.op = "search_polish"
        /\ call'.query = call.query /\ call'.limit = call.limit)
       => (/\ call'.cached
           /\ call'.statements = <<>>
           /\ call'.ret = call.ret)]_vars

----------------------------------------------------------------------------
(* The counters and the statistics *)

\* C30 as stated: over every call of the cache (lookup, store, statistics
\* update, clear_cache with any pattern, close) and every change around it,
\* the hit counter and the miss counter never go down.
C30_Original == [][Hits' >= Hits /\ Misses' >= Misses]_vars

\* C23 as stated: at no time are two threads both in the middle of opening
\* a connection for the client, and no connection is left open that the
\* client no longer holds because another thread stored its own over it.
C23_Original ==
    /\ Cardinality({t \in DOMAIN threads : threads[t] = "connect"}) <= 1
    /\ \A i \in DOMAIN sockets :
          sockets[i].state = "open" => sockets[i].held

\* C28: the statistics on the server always show whole batches: the total,
\* the sum of the popularity scores, the day's counter and the number of the
\* newest sample of both lists agree before and after every step, and so
\* does everything get_search_stats reads; pipe.execute() either runs the
\* whole batch in one step, and the update returns True, or runs nothing,
\* and the update returns False.
C28_AtomicBatch ==
    [][LET Score(zset, q) == IF q \in DOMAIN zset THEN zset[q] ELSE 0
           Scores(zset) == Score(zset, <<"k", "o", "t">>)
                           + Score(zset, <<"p", "i", "e", "s">>)
           Value(r, name, empty) ==
               IF StatsKey(name) \in DOMAIN r
               THEN r[StatsKey(name)][2] ELSE empty
           Whole(total, zset, times, counts) ==
               /\ Scores(zset) = total
               /\ times = <<>> <=> total = 0
               /\ counts = <<>> <=> total = 0
               /\ total > 0 => (times[1] = total /\ counts[1] = total)
       IN  /\ Whole(Value(redis', "search_count", 0),
                    Value(redis', "popular_queries", <<>>),
                    Value(redis', "response_times", <<>>),
                    Value(redis', "result_counts", <<>>))
           /\ Value(redis', "daily:" \o Today \o ":searches", 0)
                 = Value(redis', "search_count", 0)
           /\ (last'.op = "get_search_stats" /\ last'.calls = 3)
                 => /\ Whole(last'.results[1], last'.results[2],
                             last'.results[3], last'.results[4])
                    /\ last'.ret[2]["total_searches"]
                          = PyInt(Value(redis, "search_count", 0))
           /\ pipe' # <<>> => (Len(pipe') = 6 /\ redis' = redis)
           /\ (pipe # <<>> /\ pipe' # pipe)
                 => /\ pipe' = <<>>
                    /\ last'.op = "update_search_stats"
                    /\ IF redis_mode = "up"
                       THEN /\ last'.ret = PyBool(TRUE)
                            /\ \E n \in {Value(redis, "search_count", 0)
                                          + 1} :
                                  redis' = StatsPipeline(redis,
                                                         pipe[2].arg[2],
                                                         n, n)
                       ELSE /\ last'.ret = PyBool(FALSE)
                            /\ redis' = redis]_vars

\* get_search_stats ran while an update had its commands queued and not yet
\* executed: it saw the one update made before, whole, and nothing of the
\* queued one
C28_Witness ==
    /\ last.op = "get_search_stats" /\ last.calls = 3
    /\ pipe # <<>>
    /\ last.results[1] = 1
    /\ last.results[3] = <<1>> /\ last.results[4] = <<1>>
    /\ last.ret[2]["total_searches"] = PyInt(1)

\* C29: with n the number of successful updates (the total count), the list
\* of response times and the list of result counts each hold min(n, 1000)
\* samples, never more than 1000, the newest first: the samples being
\* numbered by their update, position i holds sample n + 1 - i, so the ones
\* trimmed are the oldest.
C29_RingBuffers ==
    LET n == CounterValue(redis, StatsKey("search_count"))
    IN  \A name \in {"response_times", "result_counts"} :
            LET samples == IF StatsKey(name) \in DOMAIN redis
                           THEN redis[StatsKey(name)][2] ELSE <<>>
            IN  /\ Len(samples) <= 1000
                /\ Len(samples) = IF n < 1000 THEN n ELSE 1000
                /\ \A i \in 1..Len(samples) : samples[i] = n + 1 - i

\* two updates after the 999 the server started with: 1001 in all, both
\* lists full, sample 1001 first and sample 2 last, sample 1 trimmed
C29_Witness ==
    /\ CounterValue(redis, StatsKey("search_count")) = 1001
    /\ pipe = <<>>
    /\ \A name \in {"response_times", "result_counts"} :
          /\ Len(redis[StatsKey(name)][2]) = 1000
          /\ redis[StatsKey(name)][2][1] = 1001
          /\ redis[StatsKey(name)][2][1000] = 2

----------------------------------------------------------------------------
(* Statistics and the calls they belong to *)

\* C31: a failure while updating statistics is not seen by the caller and
\* touches no entry.  A lookup on an available cache whose server answers
\* reads and refuses writes returns what the key holds (None for no value or
\* an undecodable one, the decoded entry otherwise) although the counter
\* could not be incremented, and an update_search_stats whose batch fails
\* returns False; both leave every key of the server, the search entries
\* among them, with the value it had
C31_StatsFailureContained ==
    [][/\ (/\ last'.op = "get_cached_search_results"
           /\ IsAvailable /\ redis_mode = "readonly")
          => LET key == SearchCacheKey(last'.query, last'.filters)
             IN  /\ last'.ret =
                        IF key \notin DOMAIN redis THEN PyNone
                        ELSE IF JsonLoads(redis[key][2]) = JSONDecodeError
                             THEN PyNone
                        ELSE JsonLoads(redis[key][2])
                 /\ redis' = redis
       /\ (/\ last'.op = "update_search_stats"
           /\ IsAvailable /\ redis_mode # "up")
          => /\ last'.ret = PyBool(FALSE)
             /\ redis' = redis]_vars

\* a lookup returned a stored entry from a server that refuses writes: the
\* hit could not be counted
C31_Witness ==
    /\ last.op = "get_cached_search_results"
    /\ IsAvailable /\ redis_mode = "readonly"
    /\ last.ret # PyNone /\ last.calls = 2
    /\ Hits = 0
    /\ SearchCacheKey(last.query, last.filters) \in DOMAIN redis

----------------------------------------------------------------------------
(* The search client: the schema snapshot *)

\* C32: in every state of the client, after construction and after any
\* searches and probes, content_in_index is true exactly when one of the
\* names content, body, message, text is among available_fields.  (Whether a
\* subject column exists is worked out by the probe from available_fields
\* and the names subject, title, topic_title, logged and not kept.)
C32_ContentFlag ==
    content_in_index
        = (\E i \in 1..Len(available_fields) :
              available_fields[i] \in
                  {<<"c", "o", "n", "t", "e", "n", "t">>, <<"b", "o", "d", "y">>,
                   <<"m", "e", "s", "s", "a", "g", "e">>,
                   <<"t", "e", "x", "t">>})

\* a second probe read the columns of a sampled row, body among them and
\* content not, and set the flag
C32_Witness ==
    /\ call.op = "_detect_index_fields" /\ call.tier2 = "answered"
    /\ content_in_index
    /\ In(<<"b", "o", "d", "y">>, available_fields)
    /\ ~In(<<"c", "o", "n", "t", "e", "n", "t">>, available_fields)

\* C33: a search never changes the schema snapshot.  After search_polish
\* returns, whether it was answered by the cache or by the engine, failed or
\* opened a connection, available_fields, content_in_index and the index
\* name are what they were before the call; of the client only the
\* connection handle may differ, and then it is a handle the call opened or
\* one the driver closed
C33_SearchKeepsSnapshot ==
    [][call'.op = "search_polish"
       => /\ available_fields' = available_fields
          /\ content_in_index' = content_in_index
          /\ index_name' = index_name
          /\ connection' # connection =>
                \/ connection' = "open" /\ call'.connects = 1
                \/ connection' = "closed" /\ call'.raised = "OperationalError"
         ]_vars

\* a search opened a connection to an engine whose index has a content
\* column, on a client whose probe had fallen back to the minimal fields:
\* the snapshot is still the minimal one
C33_Witness ==
    /\ call.op = "search_polish" /\ call.connects = 1
    /\ connection = "open" /\ call.statements # <<>>
    /\ index.describe # NoAnswer /\ ContentInIndex(index.describe)
    /\ available_fields = MinimalFields /\ ~content_in_index

\* C34 (as claimed): each search_polish made while the cache is available
\* and its server answers changes the statistics by one lookup outcome:
\* hits + misses grows by exactly 1, by a hit when the cache answered and by
\* a miss otherwise
C34_Original ==
    [][(call'.op = "search_polish" /\ IsAvailable /\ redis_mode = "up")
       => /\ Hits' + Misses' = Hits + Misses + 1
          /\ IF call'.cached THEN Hits' = Hits + 1 ELSE Misses' = Misses + 1
         ]_vars

----------------------------------------------------------------------------
(* Embeddings *)

\* C35 (as claimed): get_cached_embeddings(text, model_id) returns a vector
\* only if the entry it read was stored by cache_embeddings with the same
\* text and the same model id (an entry records both), for all texts and
\* model ids, also ones that hold the separator ":"
C35_Original ==
    (last.op = "get_cached_embeddings" /\ last.ret # PyNone)
    => \E key \in {GetCacheKey("embeddings",
                               last.filters[2] \o <<":">> \o last.query)} :
          /\ key \in DOMAIN redis
          /\ \E data \in {JsonLoads(redis[key][2])} :
                /\ data[2]["text"] = PyStr(last.query)
                /\ data[2]["model_id"] = last.filters
                /\ data[2]["embeddings"] = last.ret

----------------------------------------------------------------------------
(* The search client and its cache entries *)

----------------------------------------------------------------------------
(* The search handler of the handlers module *)

\* C39: after search or get_status of SphinxSearchHandler returns, by any
\* path, the handler holds no connection and every connection it ever
\* opened is closed; the call opened at most one connection; and a blank
\* query returns an empty list, opens no connection and sends nothing
C39_NoConnectionHeld ==
    [][call'.op \in {"handler_search", "handler_status"}
       => /\ connection' = "None"
          /\ \A i \in DOMAIN sockets' :
                sockets'[i].state = "closed" /\ ~sockets'[i].held
          /\ Len(sockets') - Len(sockets) \in {0, 1}
          /\ Len(sockets') - Len(sockets) <= call'.connects
          /\ (call'.op = "handler_search"
              /\ (call'.query = <<>> \/ IsBlank(call'.query)))
             => /\ call'.ret = PyList(<<>>)
                /\ sockets' = sockets
                /\ call'.connects = 0 /\ call'.statements = <<>>]_vars

\* the second call of the handler, a search, lost its connection while the
\* statement ran: it returned the empty list, both connections the handler
\* opened are closed and it holds none
C39_Witness ==
    /\ call.op = "handler_search" /\ call.raised = "OperationalError"
    /\ call.connects = 1 /\ call.ret = PyList(<<>>)
    /\ Len(sockets) = 2
    /\ \A i \in DOMAIN sockets : sockets[i].state = "closed"
    /\ connection = "None"

\* C40 (as claimed): a call of a wrapped function never fails because of the
\* cache: no exception of the backend leaves the wrapper, and when the key
\* holds no value or one that cannot be decoded, or the server refuses the
\* writes, the function runs once and the wrapper returns its result
C40_Original ==
    [][last'.op = "cached_search"
       => LET key == FuncKey("search", SearchArgs(last'.query))
          IN  /\ last'.ret[1] # "raise"
              /\ (\/ ~WrapperCacheAvailable
                  \/ key \notin DOMAIN redis
                  \/ JsonLoads(redis[key][2]) = JSONDecodeError)
                 => /\ last'.runs = 1
                    /\ last'.ret = last'.results]_vars

====
